---- MODULE Spec2Model ----
(***************************************************************************)
(* Content model of the multi-user blog: posts, comments and tags as the   *)
(* service layer (internal/service) drives the repositories                *)
(* (internal/repository) over the tables declared in internal/models.      *)
(*                                                                         *)
(* Strings are sequences of one-character strings, so that GenerateSlug    *)
(* and SanitizeText are computed character by character as the code does.  *)
(* Tables are functions from the stored ids to rows; ids come from a       *)
(* sequence that never reuses a value.  The tables carry the unique        *)
(* indexes the models declare (gorm:"uniqueIndex"); deletes are the plain  *)
(* row deletes the repositories issue.                                     *)
(***************************************************************************)
EXTENDS Integers, Sequences, FiniteSets, TLC

VARIABLES posts, nextPostID, comments, nextCommentID, tags, nextTagID,
          postTags, users, nextUserID, inflight, now, resp

vars == <<posts, nextPostID, comments, nextCommentID, tags, nextTagID,
          postTags, users, nextUserID, inflight, now, resp>>

(***************************************************************************)
(* Bounds of the model.                                                    *)
(***************************************************************************)
SlugMaxPosts == 3
SlugMaxTags == 3
PubMaxPosts == 2
PubMaxTime == 2
PubMaxPage == 2
PubMaxPerPage == 2
ThreadMaxPosts == 1
ThreadMaxComments == 3
AuthMaxPosts == 1
AuthMaxComments == 1
ModMaxComments == 2
RaceMaxRequests == 2
RaceMaxPosts == 3
FailMaxPosts == 2
FailMaxTags == 1
CrossMaxPosts == 2
CrossMaxComments == 3
PwMaxUsers == 2
HttpMaxPosts == 3
HttpMaxPage == 2
HttpMaxPerPage == 101
ListMaxComments == 3
ListMaxPerPage == 2
ViewMaxSlots == 2
ViewMaxViews == 2
ViewMaxTime == 2
UserMaxUsers == 2
PagMaxPage == 3
PagMaxPerPage == 102
PagMaxTotal == 30
TagsMaxPosts == 2
TagsMaxTags == 2

(***************************************************************************)
(* Program constants.                                                      *)
(***************************************************************************)
SlugMaxLen == 100
TitleMinLen == 5
TitleMaxLen == 200
ContentMinLen == 10
TagNameMinLen == 2
TagNameMaxLen == 50
UsernameMinLen == 3
UsernameMaxLen == 30
EmailMaxLen == 100
PasswordMinLen == 8
CommentMinLen == 1
CommentMaxLen == 1000

NULL == 0

PostStatusDraft == "draft"
PostStatusPublished == "published"
PostStatusArchived == "archived"
PostStatuses == {PostStatusDraft, PostStatusPublished, PostStatusArchived}

CommentStatusPending == "pending"
CommentStatusApproved == "approved"
CommentStatusRejected == "rejected"
CommentStatuses == {CommentStatusPending, CommentStatusApproved, CommentStatusRejected}

(***************************************************************************)
(* Requesters: the user id and the is_admin flag the auth middleware takes *)
(* from the token.  User 1 is the administrator.                           *)
(***************************************************************************)
Users == {1, 2, 3}
Admins == {1}
IsAdmin(u) == u \in Admins

(***************************************************************************)
(* Characters and strings.                                                 *)
(***************************************************************************)
UpperLetters == <<"A","B","C","D","E","F","G","H","I","J","K","L","M",
                  "N","O","P","Q","R","S","T","U","V","W","X","Y","Z">>
LowerLetters == <<"a","b","c","d","e","f","g","h","i","j","k","l","m",
                  "n","o","p","q","r","s","t","u","v","w","x","y","z">>
Digits == <<"0","1","2","3","4","5","6","7","8","9">>

Range(s) == {s[i] : i \in DOMAIN s}

ToLowerChar(c) ==
    IF \E i \in DOMAIN UpperLetters : UpperLetters[i] = c
    THEN LowerLetters[CHOOSE i \in DOMAIN UpperLetters : UpperLetters[i] = c]
    ELSE c

\* strings.ToLower
ToLower(s) == [i \in DOMAIN s |-> ToLowerChar(s[i])]

\* the class [a-z0-9] of the slug regular expression
IsSlugAlnum(c) == c \in Range(LowerLetters) \cup Range(Digits)

\* the class \s of the sanitising regular expression
IsSpace(c) == c \in {" ", "\t", "\n", "\r"}

\* strings.Trim(s, "-")
RECURSIVE TrimHyphens(_)
TrimHyphens(s) ==
    IF s = <<>> THEN s
    ELSE IF Head(s) = "-" THEN TrimHyphens(Tail(s))
    ELSE IF s[Len(s)] = "-" THEN TrimHyphens(SubSeq(s, 1, Len(s) - 1))
    ELSE s

\* regexp [^a-z0-9]+ replaced by "-": every maximal run becomes one hyphen.
\* The characters lo..hi of s, halved so that long titles do not nest deeply:
\* a character of the class is kept, the first character of a run becomes the
\* hyphen, the rest of the run is dropped.
RECURSIVE ReplaceRunsBetween(_, _, _)
ReplaceRunsBetween(s, lo, hi) ==
    IF lo > hi THEN <<>>
    ELSE IF lo = hi
    THEN IF IsSlugAlnum(s[lo]) THEN <<s[lo]>>
         ELSE IF lo > 1 /\ ~IsSlugAlnum(s[lo - 1]) THEN <<>>
         ELSE <<"-">>
    ELSE LET mid == (lo + hi) \div 2
         IN  ReplaceRunsBetween(s, lo, mid) \o ReplaceRunsBetween(s, mid + 1, hi)

ReplaceNonAlnumRuns(s) == ReplaceRunsBetween(s, 1, Len(s))

\* GenerateSlug without the second trim, after the cut at 100
GenerateSlugCutUntrimmed(text) ==
    LET slug == TrimHyphens(ReplaceNonAlnumRuns(ToLower(text)))
    IN  IF Len(slug) > SlugMaxLen
        THEN SubSeq(slug, 1, SlugMaxLen)
        ELSE slug

\* utils.GenerateSlug
GenerateSlug(text) ==
    LET slug == TrimHyphens(ReplaceNonAlnumRuns(ToLower(text)))
    IN  IF Len(slug) > SlugMaxLen
        THEN TrimHyphens(SubSeq(slug, 1, SlugMaxLen))
        ELSE slug

\* strings.TrimSpace
RECURSIVE TrimSpace(_)
TrimSpace(s) ==
    IF s = <<>> THEN s
    ELSE IF IsSpace(Head(s)) THEN TrimSpace(Tail(s))
    ELSE IF IsSpace(s[Len(s)]) THEN TrimSpace(SubSeq(s, 1, Len(s) - 1))
    ELSE s

\* regexp \s+ replaced by " "
RECURSIVE CollapseSpaces(_)
CollapseSpaces(s) ==
    IF s = <<>> THEN <<>>
    ELSE IF ~IsSpace(Head(s)) THEN <<Head(s)>> \o CollapseSpaces(Tail(s))
    ELSE IF Len(s) > 1 /\ IsSpace(s[2]) THEN CollapseSpaces(Tail(s))
    ELSE <<" ">> \o CollapseSpaces(Tail(s))

\* utils.SanitizeText
SanitizeText(text) == TrimSpace(CollapseSpaces(text))

\* the least n with n * b >= a, for a >= 0 and b >= 1
CeilDiv(a, b) == CHOOSE n \in 0..a : n * b >= a /\ (n = 0 \/ (n - 1) * b < a)

DefaultPerPage == 10
MaxPerPage == 100

\* CalculatePagination dividing without rounding up
CalculatePaginationFloor(page, perPage, total) ==
    LET p == IF page < 1 THEN 1 ELSE page
        pp1 == IF perPage < 1 THEN DefaultPerPage ELSE perPage
        pp == IF pp1 > MaxPerPage THEN MaxPerPage ELSE pp1
    IN  [page |-> p, perPage |-> pp, total |-> total, totalPages |-> total \div pp]

\* utils.CalculatePagination
CalculatePagination(page, perPage, total) ==
    LET p == IF page < 1 THEN 1 ELSE page
        pp1 == IF perPage < 1 THEN DefaultPerPage ELSE perPage
        pp == IF pp1 > MaxPerPage THEN MaxPerPage ELSE pp1
    IN  [page |-> p, perPage |-> pp, total |-> total,
         totalPages |-> (total + pp - 1) \div pp]

\* the decimal digits fmt.Sprintf("%d") prints for n >= 0
RECURSIVE Itoa(_)
Itoa(n) ==
    IF n < 10 THEN <<Digits[n + 1]>>
    ELSE Itoa(n \div 10) \o <<Digits[(n % 10) + 1]>>

\* fmt.Sprintf("%s-%d", originalSlug, counter)
SlugWithCounter(originalSlug, counter) == originalSlug \o <<"-">> \o Itoa(counter)

(***************************************************************************)
(* Request inputs.                                                         *)
(***************************************************************************)
Empty == <<>>

TitleGoGo == <<"G","o"," ","G","o">>
TitleGoGoBang == <<"g","o","-","g","o","!">>
TitleGoGo1 == <<"G","o"," ","G","o"," ","1">>
TitleShort == <<"G","o">>
Titles == {TitleGoGo, TitleGoGoBang, TitleGoGo1, TitleShort}

ContentA == <<"l","o","r","e","m"," ","i","p","s","u","m">>
ContentB == <<"d","o","l","o","r"," ","s","i","t"," ","a","m","e","t">>


StatusInputs == PostStatuses \cup {""}

(***************************************************************************)
(* The answer of the last request: the operation, the requester, the id of *)
(* the record it addressed (or created), the error ("" on success), the    *)
(* title, name or content the request carried, the ids a list request      *)
(* returned, and the status the addressed record had before the request.   *)
(***************************************************************************)
MkResp(op, user, id, err, title, items) ==
    [op |-> op, user |-> user, id |-> id, err |-> err, title |-> title, items |-> items,
     was |-> "", tagIDs |-> {}, out |-> <<>>, arg |-> <<>>]

WithWas(r, status) == [r EXCEPT !.was = status]

\* the second value of the request: the username, the password or the status
WithArg(r, value) == [r EXCEPT !.arg = value]

\* the value a helper of internal/utils returned
WithOut(r, value) == [r EXCEPT !.out = value]

\* the tag ids the request carried
WithTagIDs(r, tagIDs) == [r EXCEPT !.tagIDs = tagIDs]

ErrNone == ""
ErrValidation == "validation failed"
ErrPostNotFound == "post not found"
ErrCommentNotFound == "comment not found"
ErrParentNotFound == "parent comment not found"
ErrTagNotFound == "tag not found"
ErrUnauthorized == "unauthorized"
ErrTagNameTaken == "tag name is already taken"
ErrStorage == "storage error"
ErrEmailTaken == "email is already registered"
ErrUsernameTaken == "username is already taken"
ErrUserNotFound == "user not found"
ErrInvalidCredentials == "invalid credentials"
ErrDeactivated == "account is deactivated"
ErrInvalidCurrentPassword == "invalid current password"
ErrNewPasswordShort == "new password must be at least 8 characters long"

(***************************************************************************)
(* Posts.                                                                  *)
(***************************************************************************)
PostIDs == DOMAIN posts

\* IsSlugTaken with the exclusion inverted: only the excluded row is looked at
PostIsSlugTakenByExcluded(slug, excludeID) ==
    \E id \in DOMAIN posts :
        /\ posts[id].slug = slug
        /\ (excludeID > 0 => id = excludeID)

\* postRepository.IsSlugTaken
PostIsSlugTaken(slug, excludeID) ==
    \E id \in PostIDs :
        /\ posts[id].slug = slug
        /\ (excludeID > 0 => id # excludeID)

\* the unique index on posts.slug: may the row id carry slug?
PostSlugIndexAllows(slug, id) ==
    \A other \in PostIDs : other # id => posts[other].slug # slug

\* the loop with the counter incremented before the suffix is formatted
RECURSIVE PostUniqueSlugCounterFirst(_, _, _)
PostUniqueSlugCounterFirst(slug, originalSlug, counter) ==
    IF \E id \in DOMAIN posts : posts[id].slug = slug
    THEN PostUniqueSlugCounterFirst(SlugWithCounter(originalSlug, counter + 1),
                                    originalSlug, counter + 1)
    ELSE slug

\* the loop of postService.Create that makes the slug unique
RECURSIVE PostUniqueSlug(_, _, _)
PostUniqueSlug(slug, originalSlug, counter) ==
    IF PostIsSlugTaken(slug, 0)
    THEN PostUniqueSlug(SlugWithCounter(originalSlug, counter), originalSlug, counter + 1)
    ELSE slug

\* the ownership check with "and" in place of "or"
MayModifyAdminAuthorOnly(isAdmin, recordAuthor, requester) ==
    isAdmin /\ recordAuthor = requester

\* the ownership check of the post and comment services
MayModify(isAdmin, recordAuthor, requester) ==
    isAdmin \/ recordAuthor = requester

\* published_at stamped on every publication
PublishedAtOverwritten(publishedAt, t) == t

\* published_at as Publish and Update set it when a post becomes published
PublishedAtOnPublish(publishedAt, t) ==
    IF publishedAt = NULL THEN t ELSE publishedAt

\* published_at of a post created with the given status
PublishedAtOnCreate(status, t) ==
    IF status = PostStatusPublished THEN t ELSE NULL

ValidTitle(title) == Len(title) >= TitleMinLen /\ Len(title) <= TitleMaxLen
ValidContent(content) == Len(content) >= ContentMinLen

\* the validate tags of PostCreateRequest
ValidPostCreate(title, content, status) ==
    /\ ValidTitle(title)
    /\ ValidContent(content)
    /\ status \in PostStatuses

\* the validate tags of PostUpdateRequest (omitempty)
ValidPostUpdate(title, content, status) ==
    /\ (title # Empty => ValidTitle(title))
    /\ (content # Empty => ValidContent(content))
    /\ (status # "" => status \in PostStatuses)

\* postRepository.UpdateTags: the tags found among tagIDs replace the post's tags
UpdateTags(id, tagIDs) ==
    {pt \in postTags : pt[1] # id} \cup {<<id, t>> : t \in (tagIDs \cap DOMAIN tags)}

\* the answer to a post Create or Update, with the request it answers and
\* whether the tag association step went through
PostResp(op, u, id, err, title, content, status, tagIDs, saved) ==
    WithTagIDs(WithArg(WithOut(MkResp(op, u, id, err, title, <<>>), [tagsSaved |-> saved]),
                       [content |-> content, status |-> status]),
               tagIDs)

\* the error of UpdateTags is returned to the requester
TagsErrorReturned(saved) == IF saved THEN ErrNone ELSE ErrStorage

\* postService.Create / Update: the error of UpdateTags is printed, not returned
TagsErrorLogged(saved) == ErrNone

\* postService.Create
PostCreate(u, title, content, status, tagIDs) ==
    /\ IF ~ValidPostCreate(title, content, status)
       THEN /\ resp' = PostResp("PostCreate", u, 0, ErrValidation, title, content, status,
                                tagIDs, TRUE)
            /\ UNCHANGED <<posts, nextPostID, postTags>>
       ELSE LET originalSlug == GenerateSlug(title)
                slug == PostUniqueSlug(originalSlug, originalSlug, 1)
                id == nextPostID
                row == [title |-> SanitizeText(title),
                        slug |-> slug,
                        content |-> content,
                        status |-> status,
                        author |-> u,
                        viewCount |-> 0,
                        publishedAt |-> PublishedAtOnCreate(status, now)]
            IN  /\ nextPostID' = nextPostID + 1
                /\ IF PostSlugIndexAllows(slug, id)
                   THEN /\ posts' = [i \in PostIDs \cup {id} |->
                                        IF i = id THEN row ELSE posts[i]]
                        /\ \E saved \in (IF tagIDs = {} THEN {TRUE} ELSE BOOLEAN) :
                             /\ postTags' = IF tagIDs # {} /\ saved
                                            THEN UpdateTags(id, tagIDs)
                                            ELSE postTags
                             /\ resp' = PostResp("PostCreate", u, id, TagsErrorLogged(saved),
                                                 title, content, status, tagIDs, saved)
                   ELSE /\ resp' = PostResp("PostCreate", u, 0, ErrStorage, title, content,
                                            status, tagIDs, TRUE)
                        /\ UNCHANGED <<posts, postTags>>
    /\ UNCHANGED <<comments, nextCommentID, tags, nextTagID, now, users, nextUserID, inflight>>

(***************************************************************************)
(* Requests served concurrently.  inflight maps the slot of a request or   *)
(* goroutine that has started and not finished to what it holds: the       *)
(* operation, the requester, the post id, the request's title and status,  *)
(* the slug it settled on and the row it read.                             *)
(***************************************************************************)
Slots == DOMAIN inflight

Task(op, u, id, title, status, slug, row) ==
    [op |-> op, user |-> u, id |-> id, title |-> title, status |-> status,
     slug |-> slug, row |-> row]

Start(slot, task) ==
    inflight' = [i \in Slots \cup {slot} |-> IF i = slot THEN task ELSE inflight[i]]

Finish(slot) == inflight' = [i \in Slots \ {slot} |-> inflight[i]]

StatusCreated == 201
StatusBadRequest == 400

\* PostHandler.CreatePost: the HTTP status for the service's answer
CreatePostStatus(err) == IF err = ErrNone THEN StatusCreated ELSE StatusBadRequest

\* postService.Create up to the end of its slug loop: the request is validated
\* and settles on a slug that no stored post has at this moment
PostCreateCheck(slot, u, title, content, status) ==
    /\ slot \notin Slots
    /\ IF ~ValidPostCreate(title, content, status)
       THEN /\ resp' = WithOut(MkResp("PostCreate", u, 0, ErrValidation, title, <<>>),
                               [status |-> CreatePostStatus(ErrValidation)])
            /\ UNCHANGED inflight
       ELSE LET originalSlug == GenerateSlug(title)
                slug == PostUniqueSlug(originalSlug, originalSlug, 1)
            IN  /\ Start(slot, Task("PostCreate", u, 0, title, status, slug, content))
                /\ resp' = MkResp("PostCreateCheck", u, 0, ErrNone, title, <<>>)
    /\ UNCHANGED <<posts, nextPostID, comments, nextCommentID, tags, nextTagID, postTags,
                   users, nextUserID, now>>

\* postService.Create from postRepo.Create on, and the handler's answer
PostCreateInsert(slot) ==
    /\ slot \in Slots /\ inflight[slot].op = "PostCreate"
    /\ LET t == inflight[slot]
           id == nextPostID
           row == [title |-> SanitizeText(t.title),
                   slug |-> t.slug,
                   content |-> t.row,
                   status |-> t.status,
                   author |-> t.user,
                   viewCount |-> 0,
                   publishedAt |-> PublishedAtOnCreate(t.status, now)]
       IN  /\ nextPostID' = nextPostID + 1
           /\ IF PostSlugIndexAllows(t.slug, id)
              THEN /\ posts' = [i \in PostIDs \cup {id} |-> IF i = id THEN row ELSE posts[i]]
                   /\ resp' = WithOut(MkResp("PostCreate", t.user, id, ErrNone, t.title, <<>>),
                                      [status |-> CreatePostStatus(ErrNone)])
              ELSE /\ resp' = WithOut(MkResp("PostCreate", t.user, 0, ErrStorage, t.title, <<>>),
                                      [status |-> CreatePostStatus(ErrStorage)])
                   /\ UNCHANGED posts
    /\ Finish(slot)
    /\ UNCHANGED <<comments, nextCommentID, tags, nextTagID, postTags,
                   users, nextUserID, now>>

\* the slug postService.Update leaves on the post
SlugAfterPostUpdate(id, title) ==
    LET newSlug == GenerateSlug(title)
    IN  IF title # Empty /\ newSlug # posts[id].slug /\ ~PostIsSlugTaken(newSlug, id)
        THEN newSlug
        ELSE posts[id].slug

\* status and published_at as postService.Update leaves them
StatusAfterPostUpdate(post, status) ==
    IF status # "" /\ status # post.status THEN status ELSE post.status

PublishedAtAfterPostUpdate(post, status, t) ==
    IF status # "" /\ status # post.status /\ status = PostStatusPublished
    THEN PublishedAtOnPublish(post.publishedAt, t)
    ELSE post.publishedAt

\* postService.Update
PostUpdate(u, id, title, content, status, tagIDs) ==
    /\ IF ~ValidPostUpdate(title, content, status)
       THEN /\ resp' = PostResp("PostUpdate", u, id, ErrValidation, title, content, status,
                                tagIDs, TRUE)
            /\ UNCHANGED <<posts, postTags>>
       ELSE IF id \notin PostIDs
       THEN /\ resp' = PostResp("PostUpdate", u, id, ErrPostNotFound, title, content, status,
                                tagIDs, TRUE)
            /\ UNCHANGED <<posts, postTags>>
       ELSE IF ~MayModify(IsAdmin(u), posts[id].author, u)
       THEN /\ resp' = PostResp("PostUpdate", u, id, ErrUnauthorized, title, content, status,
                                tagIDs, TRUE)
            /\ UNCHANGED <<posts, postTags>>
       ELSE LET post == posts[id]
                row == [title |-> IF title # Empty THEN SanitizeText(title) ELSE post.title,
                        slug |-> SlugAfterPostUpdate(id, title),
                        content |-> IF content # Empty THEN content ELSE post.content,
                        status |-> StatusAfterPostUpdate(post, status),
                        author |-> post.author,
                        viewCount |-> post.viewCount,
                        publishedAt |-> PublishedAtAfterPostUpdate(post, status, now)]
            IN  IF PostSlugIndexAllows(row.slug, id)
                THEN /\ posts' = [posts EXCEPT ![id] = row]
                     /\ \E saved \in (IF tagIDs = {} THEN {TRUE} ELSE BOOLEAN) :
                          /\ postTags' = IF tagIDs # {} /\ saved
                                         THEN UpdateTags(id, tagIDs)
                                         ELSE postTags
                          /\ resp' = PostResp("PostUpdate", u, id, TagsErrorLogged(saved),
                                              title, content, status, tagIDs, saved)
                ELSE /\ resp' = PostResp("PostUpdate", u, id, ErrStorage, title, content,
                                         status, tagIDs, TRUE)
                     /\ UNCHANGED <<posts, postTags>>
    /\ UNCHANGED <<nextPostID, comments, nextCommentID, tags, nextTagID, now,
                   users, nextUserID, inflight>>

\* postRepository.Delete: the row of the post is deleted, nothing else
PostRepoDelete(id) == [i \in PostIDs \ {id} |-> posts[i]]

\* postService.Delete
PostDelete(u, id) ==
    /\ IF id \notin PostIDs
       THEN /\ resp' = MkResp("PostDelete", u, id, ErrPostNotFound, Empty, <<>>)
            /\ UNCHANGED posts
       ELSE IF ~MayModify(IsAdmin(u), posts[id].author, u)
       THEN /\ resp' = MkResp("PostDelete", u, id, ErrUnauthorized, Empty, <<>>)
            /\ UNCHANGED posts
       ELSE /\ posts' = PostRepoDelete(id)
            /\ resp' = MkResp("PostDelete", u, id, ErrNone, Empty, <<>>)
    /\ UNCHANGED <<nextPostID, comments, nextCommentID, tags, nextTagID, postTags, now,
                   users, nextUserID, inflight>>

\* postService.Publish
PostPublish(u, id) ==
    /\ IF id \notin PostIDs
       THEN /\ resp' = MkResp("PostPublish", u, id, ErrPostNotFound, Empty, <<>>)
            /\ UNCHANGED posts
       ELSE IF ~MayModify(IsAdmin(u), posts[id].author, u)
       THEN /\ resp' = MkResp("PostPublish", u, id, ErrUnauthorized, Empty, <<>>)
            /\ UNCHANGED posts
       ELSE /\ posts' = [posts EXCEPT
                            ![id].status = PostStatusPublished,
                            ![id].publishedAt = PublishedAtOnPublish(posts[id].publishedAt, now)]
            /\ resp' = MkResp("PostPublish", u, id, ErrNone, Empty, <<>>)
    /\ UNCHANGED <<nextPostID, comments, nextCommentID, tags, nextTagID, postTags, now,
                   users, nextUserID, inflight>>

\* postService.Unpublish
PostUnpublish(u, id) ==
    /\ IF id \notin PostIDs
       THEN /\ resp' = MkResp("PostUnpublish", u, id, ErrPostNotFound, Empty, <<>>)
            /\ UNCHANGED posts
       ELSE IF ~MayModify(IsAdmin(u), posts[id].author, u)
       THEN /\ resp' = MkResp("PostUnpublish", u, id, ErrUnauthorized, Empty, <<>>)
            /\ UNCHANGED posts
       ELSE /\ posts' = [posts EXCEPT ![id].status = PostStatusDraft]
            /\ resp' = MkResp("PostUnpublish", u, id, ErrNone, Empty, <<>>)
    /\ UNCHANGED <<nextPostID, comments, nextCommentID, tags, nextTagID, postTags, now,
                   users, nextUserID, inflight>>

\* the row postService.Update saves, from the row it read
RowAfterUpdate(post, id, title, content, status, t) ==
    LET newSlug == GenerateSlug(title)
    IN  [title |-> IF title # Empty THEN SanitizeText(title) ELSE post.title,
         slug |-> IF title # Empty /\ newSlug # post.slug /\ ~PostIsSlugTaken(newSlug, id)
                  THEN newSlug ELSE post.slug,
         content |-> IF content # Empty THEN content ELSE post.content,
         status |-> StatusAfterPostUpdate(post, status),
         author |-> post.author,
         viewCount |-> post.viewCount,
         publishedAt |-> PublishedAtAfterPostUpdate(post, status, t)]

\* the row Publish, Unpublish or Update saves, from the row it read
RowToSave(task, t) ==
    IF task.op = "PostPublish"
    THEN [task.row EXCEPT !.status = PostStatusPublished,
                          !.publishedAt = PublishedAtOnPublish(@, t)]
    ELSE IF task.op = "PostUnpublish"
    THEN [task.row EXCEPT !.status = PostStatusDraft]
    ELSE RowAfterUpdate(task.row, task.id, task.title, Empty, task.status, t)

\* Publish, Unpublish or Update up to the ownership check: the post is read
PostRead(slot, op, u, id, title, status) ==
    /\ slot \notin Slots
    /\ IF op = "PostUpdate" /\ ~ValidPostUpdate(title, Empty, status)
       THEN /\ resp' = MkResp(op, u, id, ErrValidation, title, <<>>)
            /\ UNCHANGED inflight
       ELSE IF id \notin PostIDs
       THEN /\ resp' = MkResp(op, u, id, ErrPostNotFound, title, <<>>)
            /\ UNCHANGED inflight
       ELSE IF ~MayModify(IsAdmin(u), posts[id].author, u)
       THEN /\ resp' = MkResp(op, u, id, ErrUnauthorized, title, <<>>)
            /\ UNCHANGED inflight
       ELSE /\ Start(slot, Task(op, u, id, title, status, <<>>, posts[id]))
            /\ resp' = MkResp("PostRead", u, id, ErrNone, title, <<>>)
    /\ UNCHANGED <<posts, nextPostID, comments, nextCommentID, tags, nextTagID, postTags,
                   users, nextUserID, now>>

\* the rest of Publish, Unpublish or Update: the row that was read is changed
\* and postRepository.Update saves all its columns
PostSave(slot) ==
    /\ slot \in Slots
    /\ inflight[slot].op \in {"PostPublish", "PostUnpublish", "PostUpdate"}
    /\ LET t == inflight[slot]
           row == RowToSave(t, now)
       IN  IF t.id \in PostIDs /\ PostSlugIndexAllows(row.slug, t.id)
           THEN /\ posts' = [posts EXCEPT ![t.id] = row]
                /\ resp' = MkResp(t.op, t.user, t.id, ErrNone, t.title, <<>>)
           ELSE /\ resp' = MkResp(t.op, t.user, t.id, ErrStorage, t.title, <<>>)
                /\ UNCHANGED posts
    /\ Finish(slot)
    /\ UNCHANGED <<nextPostID, comments, nextCommentID, tags, nextTagID, postTags,
                   users, nextUserID, now>>

\* the view is counted whatever the status of the post
CountsViewAlways(post) == TRUE

\* PostHandler.GetPost: the view of a published post is counted
CountsView(post) == post.status = PostStatusPublished

\* PostHandler.GetPost / GetPostBySlug after the lookup: the answer carries the
\* post as read, and the increment is left to a goroutine
AnswerView(op, slot, found) ==
    /\ slot \notin Slots
    /\ IF found = {}
       THEN /\ resp' = MkResp(op, 0, 0, ErrPostNotFound, Empty, <<>>)
            /\ UNCHANGED inflight
       ELSE LET id == CHOOSE i \in found : TRUE
            IN  /\ resp' = WithOut(MkResp(op, 0, id, ErrNone, Empty, <<>>),
                                   [viewCount |-> posts[id].viewCount,
                                    status |-> posts[id].status])
                /\ IF CountsView(posts[id])
                   THEN Start(slot, Task("IncrementViewCount", 0, id, Empty, "", <<>>, <<>>))
                   ELSE UNCHANGED inflight
    /\ UNCHANGED <<posts, nextPostID, comments, nextCommentID, tags, nextTagID, postTags,
                   users, nextUserID, now>>

GetPost(slot, id) == AnswerView("GetPost", slot, {i \in PostIDs : i = id})

GetPostBySlug(slot, slug) ==
    AnswerView("GetPostBySlug", slot, {i \in PostIDs : posts[i].slug = slug})

\* the goroutine: postRepository.IncrementViewCount, one UPDATE statement
IncrementViewCount(slot) ==
    /\ slot \in Slots /\ inflight[slot].op = "IncrementViewCount"
    /\ LET id == inflight[slot].id
       IN  /\ posts' = IF id \in PostIDs
                       THEN [posts EXCEPT ![id].viewCount = @ + 1]
                       ELSE posts
           /\ resp' = MkResp("IncrementViewCount", 0, id, ErrNone, Empty, <<>>)
    /\ Finish(slot)
    /\ UNCHANGED <<nextPostID, comments, nextCommentID, tags, nextTagID, postTags,
                   users, nextUserID, now>>

\* the WHERE clause without its status condition
MatchesPublishedAtOnly(post, t) ==
    /\ post.publishedAt # NULL
    /\ post.publishedAt <= t

\* the WHERE clause of postRepository.GetPublished
MatchesPublished(post, t) ==
    /\ post.status = PostStatusPublished
    /\ post.publishedAt # NULL
    /\ post.publishedAt <= t

\* the rows of a query as ORDER BY published_at DESC may return them
OrderedByPublishedAtDesc(ids) ==
    {s \in [1..Cardinality(ids) -> ids] :
        /\ \A i, j \in DOMAIN s : i # j => s[i] # s[j]
        /\ \A i, j \in DOMAIN s : i < j => posts[s[i]].publishedAt >= posts[s[j]].publishedAt}

\* OFFSET offset LIMIT limit
Page(s, offset, limit) ==
    SubSeq(s, offset + 1, IF offset + limit < Len(s) THEN offset + limit ELSE Len(s))

\* postService.GetPublishedPosts over postRepository.GetPublished
GetPublishedPosts(page, perPage) ==
    /\ \E s \in OrderedByPublishedAtDesc({id \in PostIDs : MatchesPublished(posts[id], now)}) :
          resp' = MkResp("GetPublishedPosts", 0, 0, ErrNone, Empty,
                         Page(s, (page - 1) * perPage, perPage))
    /\ UNCHANGED <<posts, nextPostID, comments, nextCommentID, tags, nextTagID, postTags, now,
                   users, nextUserID, inflight>>

\* a query parameter: <<>> when absent or not a number, <<n>> when it parses
\* to the integer n.  PaginationMiddleware: the page of the request
PaginationPage(query) ==
    IF query # <<>> /\ query[1] > 0 THEN query[1] ELSE 1

\* PaginationMiddleware: the per_page of the request
PaginationPerPage(query) ==
    IF query # <<>> /\ query[1] > 0 /\ query[1] <= MaxPerPage THEN query[1]
    ELSE DefaultPerPage

\* GET /api/posts/published: PaginationMiddleware, then
\* PostHandler.GetPublishedPosts over postService.GetPublishedPosts; items is
\* the data of the answer, out its pagination metadata, arg the query
HandleGetPublishedPosts(pageQuery, perPageQuery) ==
    /\ LET page == PaginationPage(pageQuery)
           perPage == PaginationPerPage(perPageQuery)
           found == {id \in PostIDs : MatchesPublished(posts[id], now)}
       IN  \E s \in OrderedByPublishedAtDesc(found) :
              resp' = WithArg(WithOut(MkResp("HandleGetPublishedPosts", 0, 0, ErrNone, Empty,
                                             Page(s, (page - 1) * perPage, perPage)),
                                      CalculatePagination(page, perPage, Cardinality(found))),
                              [page |-> pageQuery, perPage |-> perPageQuery])
    /\ UNCHANGED <<posts, nextPostID, comments, nextCommentID, tags, nextTagID, postTags, now,
                   users, nextUserID, inflight>>

(***************************************************************************)
(* Comments.                                                               *)
(***************************************************************************)
CommentHi == <<"h","i">>
CommentYo == <<"y","o"," ">>

CommentIDs == DOMAIN comments

ValidCommentContent(content) ==
    Len(content) >= CommentMinLen /\ Len(content) <= CommentMaxLen

\* a row created already approved
NewCommentApproved(u, content, postID, parentID) ==
    [content |-> SanitizeText(content),
     author |-> u,
     post |-> postID,
     parent |-> parentID,
     status |-> CommentStatusApproved]

\* the row commentService.Create builds
NewComment(u, content, postID, parentID) ==
    [content |-> SanitizeText(content),
     author |-> u,
     post |-> postID,
     parent |-> parentID,
     status |-> CommentStatusPending]

\* commentService.Create; parentID = NULL for a top-level comment
CommentCreate(u, content, postID, parentID) ==
    /\ IF ~ValidCommentContent(content) \/ postID = 0
       THEN /\ resp' = MkResp("CommentCreate", u, 0, ErrValidation, content, <<>>)
            /\ UNCHANGED <<comments, nextCommentID>>
       ELSE IF postID \notin PostIDs
       THEN /\ resp' = MkResp("CommentCreate", u, 0, ErrPostNotFound, content, <<>>)
            /\ UNCHANGED <<comments, nextCommentID>>
       ELSE IF parentID # NULL /\ parentID \notin CommentIDs
       THEN /\ resp' = MkResp("CommentCreate", u, 0, ErrParentNotFound, content, <<>>)
            /\ UNCHANGED <<comments, nextCommentID>>
       ELSE LET id == nextCommentID
            IN  /\ comments' = [i \in CommentIDs \cup {id} |->
                                  IF i = id THEN NewComment(u, content, postID, parentID)
                                  ELSE comments[i]]
                /\ nextCommentID' = nextCommentID + 1
                /\ resp' = MkResp("CommentCreate", u, id, ErrNone, content, <<>>)
    /\ UNCHANGED <<posts, nextPostID, tags, nextTagID, postTags, now, users, nextUserID, inflight>>

\* ORDER BY created_at DESC: ids grow with the creation time
OrderedByCreatedAtDesc(ids) ==
    CHOOSE s \in [1..Cardinality(ids) -> ids] :
        \A i, j \in DOMAIN s : i < j => s[i] > s[j]

\* the replies are preloaded whatever their status
ListsReplyAnyStatus(c) == TRUE

\* commentRepository.GetByPost: the condition of the Replies preload
ListsReply(c) == c.status = CommentStatusApproved

\* commentRepository.GetByPost: the WHERE clause of the listing
ListsComment(c, postID) ==
    c.post = postID /\ c.parent = NULL /\ c.status = CommentStatusApproved

\* commentService.GetByPost over commentRepository.GetByPost: the page of
\* top-level comments (items) and the replies preloaded under them (out)
GetByPost(postID, page, perPage) ==
    /\ IF postID \notin PostIDs
       THEN resp' = MkResp("GetByPost", 0, postID, ErrPostNotFound, Empty, <<>>)
       ELSE LET top == OrderedByCreatedAtDesc(
                           {id \in CommentIDs : ListsComment(comments[id], postID)})
                items == Page(top, (page - 1) * perPage, perPage)
                replies == {r \in CommentIDs :
                               /\ \E i \in DOMAIN items : comments[r].parent = items[i]
                               /\ ListsReply(comments[r])}
            IN  resp' = WithOut(MkResp("GetByPost", 0, postID, ErrNone, Empty, items),
                                replies)
    /\ UNCHANGED <<posts, nextPostID, comments, nextCommentID, tags, nextTagID, postTags, now,
                   users, nextUserID, inflight>>

\* Update taking the status of the request from any requester
StatusFromAnyRequester(isAdmin, old, content, status) ==
    LET afterContent == IF content # Empty /\ ~isAdmin THEN CommentStatusPending ELSE old
    IN  IF status # "" THEN status ELSE afterContent

\* Update without the reset to pending on a content edit
StatusKeptOnEdit(isAdmin, old, content, status) ==
    IF isAdmin /\ status # "" THEN status ELSE old

\* the status commentService.Update leaves on the comment
StatusAfterCommentUpdate(isAdmin, old, content, status) ==
    LET afterContent == IF content # Empty /\ ~isAdmin THEN CommentStatusPending ELSE old
    IN  IF isAdmin /\ status # "" THEN status ELSE afterContent

\* commentService.Update
CommentUpdate(u, id, content, status) ==
    /\ IF \/ (content # Empty /\ ~ValidCommentContent(content))
          \/ (status # "" /\ status \notin CommentStatuses)
       THEN /\ resp' = MkResp("CommentUpdate", u, id, ErrValidation, content, <<>>)
            /\ UNCHANGED comments
       ELSE IF id \notin CommentIDs
       THEN /\ resp' = MkResp("CommentUpdate", u, id, ErrCommentNotFound, content, <<>>)
            /\ UNCHANGED comments
       ELSE IF ~MayModify(IsAdmin(u), comments[id].author, u)
       THEN /\ resp' = MkResp("CommentUpdate", u, id, ErrUnauthorized, content, <<>>)
            /\ UNCHANGED comments
       ELSE /\ comments' = [comments EXCEPT
                ![id].content = IF content # Empty THEN SanitizeText(content) ELSE @,
                ![id].status = StatusAfterCommentUpdate(IsAdmin(u), @, content, status)]
            /\ resp' = WithArg(WithWas(MkResp("CommentUpdate", u, id, ErrNone, content, <<>>),
                                       comments[id].status),
                               status)
    /\ UNCHANGED <<posts, nextPostID, nextCommentID, tags, nextTagID, postTags, now,
                   users, nextUserID, inflight>>

\* commentRepository.Delete: the rows whose parent_id is id, then the row id
CommentRepoDelete(id) ==
    [i \in {c \in CommentIDs : c # id /\ comments[c].parent # id} |-> comments[i]]

\* commentService.Delete
CommentDelete(u, id) ==
    /\ IF id \notin CommentIDs
       THEN /\ resp' = MkResp("CommentDelete", u, id, ErrCommentNotFound, Empty, <<>>)
            /\ UNCHANGED comments
       ELSE IF ~MayModify(IsAdmin(u), comments[id].author, u)
       THEN /\ resp' = MkResp("CommentDelete", u, id, ErrUnauthorized, Empty, <<>>)
            /\ UNCHANGED comments
       ELSE /\ comments' = CommentRepoDelete(id)
            /\ resp' = MkResp("CommentDelete", u, id, ErrNone, Empty, <<>>)
    /\ UNCHANGED <<posts, nextPostID, nextCommentID, tags, nextTagID, postTags, now,
                   users, nextUserID, inflight>>

\* commentService.ApproveComment / RejectComment over commentRepository.UpdateStatus
CommentModerate(op, u, id, status) ==
    /\ IF id \notin CommentIDs
       THEN /\ resp' = MkResp(op, u, id, ErrCommentNotFound, Empty, <<>>)
            /\ UNCHANGED comments
       ELSE /\ comments' = [comments EXCEPT ![id].status = status]
            /\ resp' = MkResp(op, u, id, ErrNone, Empty, <<>>)
    /\ UNCHANGED <<posts, nextPostID, nextCommentID, tags, nextTagID, postTags, now,
                   users, nextUserID, inflight>>

ApproveComment(u, id) == CommentModerate("ApproveComment", u, id, CommentStatusApproved)

RejectComment(u, id) == CommentModerate("RejectComment", u, id, CommentStatusRejected)

(***************************************************************************)
(* Tags.  The routes of the tag service are admin-only.                    *)
(***************************************************************************)
TagGo == <<"g","o">>
TagGoUpper == <<"G","o"," ">>
TagGoBang == <<"g","o","!">>
TagGo1 == <<"g","o"," ","1">>
TagShort == <<"g">>
TagNames == {TagGo, TagGoUpper, TagGoBang, TagGo1, TagShort}

TagIDs == DOMAIN tags

ValidTagName(name) == Len(name) >= TagNameMinLen /\ Len(name) <= TagNameMaxLen

\* tagRepository.IsNameTaken: LOWER(name) = LOWER(?)
TagIsNameTaken(name, excludeID) ==
    \E id \in TagIDs :
        /\ ToLower(tags[id].name) = ToLower(name)
        /\ (excludeID > 0 => id # excludeID)

\* tagRepository.IsSlugTaken
TagIsSlugTaken(slug, excludeID) ==
    \E id \in TagIDs :
        /\ tags[id].slug = slug
        /\ (excludeID > 0 => id # excludeID)

\* the unique indexes on tags.name and tags.slug: may the row id carry them?
TagIndexesAllow(name, slug, id) ==
    \A other \in TagIDs :
        other # id => tags[other].name # name /\ tags[other].slug # slug

\* the loop of tagService.Create that makes the slug unique
RECURSIVE TagUniqueSlug(_, _, _)
TagUniqueSlug(slug, originalSlug, counter) ==
    IF TagIsSlugTaken(slug, 0)
    THEN TagUniqueSlug(SlugWithCounter(originalSlug, counter), originalSlug, counter + 1)
    ELSE slug

\* tagService.Create
TagCreate(u, name) ==
    /\ IF ~ValidTagName(name)
       THEN /\ resp' = MkResp("TagCreate", u, 0, ErrValidation, name, <<>>)
            /\ UNCHANGED <<tags, nextTagID>>
       ELSE IF TagIsNameTaken(name, 0)
       THEN /\ resp' = MkResp("TagCreate", u, 0, ErrTagNameTaken, name, <<>>)
            /\ UNCHANGED <<tags, nextTagID>>
       ELSE LET originalSlug == GenerateSlug(name)
                slug == TagUniqueSlug(originalSlug, originalSlug, 1)
                id == nextTagID
                row == [name |-> SanitizeText(name), slug |-> slug]
            IN  /\ nextTagID' = nextTagID + 1
                /\ IF TagIndexesAllow(row.name, row.slug, id)
                   THEN /\ tags' = [i \in TagIDs \cup {id} |->
                                       IF i = id THEN row ELSE tags[i]]
                        /\ resp' = MkResp("TagCreate", u, id, ErrNone, name, <<>>)
                   ELSE /\ resp' = MkResp("TagCreate", u, 0, ErrStorage, name, <<>>)
                        /\ UNCHANGED tags
    /\ UNCHANGED <<posts, nextPostID, comments, nextCommentID, postTags, now,
                   users, nextUserID, inflight>>

\* the slug tagService.Update leaves on a tag whose name changes
SlugAfterTagUpdate(id, name) ==
    LET newSlug == GenerateSlug(name)
    IN  IF newSlug # tags[id].slug /\ ~TagIsSlugTaken(newSlug, id)
        THEN newSlug
        ELSE tags[id].slug

\* tagService.Update
TagUpdate(u, id, name) ==
    /\ IF name # Empty /\ ~ValidTagName(name)
       THEN /\ resp' = MkResp("TagUpdate", u, id, ErrValidation, name, <<>>)
            /\ UNCHANGED tags
       ELSE IF id \notin TagIDs
       THEN /\ resp' = MkResp("TagUpdate", u, id, ErrTagNotFound, name, <<>>)
            /\ UNCHANGED tags
       ELSE IF name # Empty /\ name # tags[id].name /\ TagIsNameTaken(name, id)
       THEN /\ resp' = MkResp("TagUpdate", u, id, ErrTagNameTaken, name, <<>>)
            /\ UNCHANGED tags
       ELSE LET row == IF name # Empty /\ name # tags[id].name
                       THEN [name |-> SanitizeText(name),
                             slug |-> SlugAfterTagUpdate(id, name)]
                       ELSE tags[id]
            IN  IF TagIndexesAllow(row.name, row.slug, id)
                THEN /\ tags' = [tags EXCEPT ![id] = row]
                     /\ resp' = MkResp("TagUpdate", u, id, ErrNone, name, <<>>)
                ELSE /\ resp' = MkResp("TagUpdate", u, id, ErrStorage, name, <<>>)
                     /\ UNCHANGED tags
    /\ UNCHANGED <<posts, nextPostID, comments, nextCommentID, nextTagID, postTags, now,
                   users, nextUserID, inflight>>

\* tagService.Delete over tagRepository.Delete: associations cleared, then the row
TagDelete(u, id) ==
    /\ IF id \notin TagIDs
       THEN /\ resp' = MkResp("TagDelete", u, id, ErrTagNotFound, Empty, <<>>)
            /\ UNCHANGED <<tags, postTags>>
       ELSE /\ tags' = [i \in TagIDs \ {id} |-> tags[i]]
            /\ postTags' = {pt \in postTags : pt[2] # id}
            /\ resp' = MkResp("TagDelete", u, id, ErrNone, Empty, <<>>)
    /\ UNCHANGED <<posts, nextPostID, comments, nextCommentID, nextTagID, now,
                   users, nextUserID, inflight>>

(***************************************************************************)
(* Users.  Emails, usernames and passwords are character sequences; the    *)
(* stored password is the bcrypt hash the BeforeCreate hook computes.      *)
(***************************************************************************)
EmailAnn == <<"a","@","x",".","i","o">>
EmailBob == <<"b","@","x",".","i","o">>
EmailBad == <<"a",".","x">>
Emails == {EmailAnn, EmailBob, EmailBad}

NameAnn == <<"a","n","n">>
NameBob == <<"b","o","b">>
NameBad == <<"a","!","b">>
Usernames == {NameAnn, NameBob, NameBad}

PasswordP == <<"p","a","s","s","w","o","r","d">>
PasswordQ == <<"q","w","e","r","t","y","1","2","3">>
PasswordShort == <<"p","w">>
Passwords == {PasswordP, PasswordQ, PasswordShort}

UserIDs == DOMAIN users

\* bcrypt.GenerateFromPassword: a value that is no password and that only
\* the password it was made from matches
Hash(password) == <<"$2a$">> \o password

\* User.CheckPassword: bcrypt.CompareHashAndPassword
CheckPassword(stored, password) == stored = Hash(password)

\* validate:"alphanum"
IsAlnumChar(c) == c \in Range(LowerLetters) \cup Range(UpperLetters) \cup Range(Digits)

\* validate:"email": one "@" with a local part before it and a dotted domain after
ValidEmail(e) ==
    /\ Len(e) <= EmailMaxLen
    /\ \E i \in 2..(Len(e) - 1) :
          /\ e[i] = "@"
          /\ \A j \in DOMAIN e : e[j] = "@" => j = i
          /\ \E k \in (i + 2)..(Len(e) - 1) : e[k] = "."

ValidUsername(n) ==
    /\ Len(n) >= UsernameMinLen /\ Len(n) <= UsernameMaxLen
    /\ \A i \in DOMAIN n : IsAlnumChar(n[i])

ValidPassword(pw) == Len(pw) >= PasswordMinLen

\* the validate tags of UserCreateRequest
ValidUserCreate(email, username, password) ==
    ValidEmail(email) /\ ValidUsername(username) /\ ValidPassword(password)

\* the validate tags of UserUpdateRequest (omitempty)
ValidUserUpdate(email, username) ==
    /\ (email # Empty => ValidEmail(email))
    /\ (username # Empty => ValidUsername(username))

\* userRepository.IsEmailTaken
UserIsEmailTaken(email, excludeID) ==
    \E id \in UserIDs :
        /\ users[id].email = email
        /\ (excludeID > 0 => id # excludeID)

\* IsUsernameTaken querying the email column
UserIsUsernameTakenByEmail(username, excludeID) ==
    \E id \in DOMAIN users :
        /\ users[id].email = username
        /\ (excludeID > 0 => id # excludeID)

\* userRepository.IsUsernameTaken
UserIsUsernameTaken(username, excludeID) ==
    \E id \in UserIDs :
        /\ users[id].username = username
        /\ (excludeID > 0 => id # excludeID)

\* the unique indexes on users.email and users.username
UserIndexesAllow(email, username, id) ==
    \A other \in UserIDs :
        other # id => users[other].email # email /\ users[other].username # username

\* userService.Register
Register(email, username, password) ==
    /\ IF ~ValidUserCreate(email, username, password)
       THEN /\ resp' = WithArg(MkResp("Register", 0, 0, ErrValidation, email, <<>>), username)
            /\ UNCHANGED <<users, nextUserID>>
       ELSE IF UserIsEmailTaken(email, 0)
       THEN /\ resp' = WithArg(MkResp("Register", 0, 0, ErrEmailTaken, email, <<>>), username)
            /\ UNCHANGED <<users, nextUserID>>
       ELSE IF UserIsUsernameTaken(username, 0)
       THEN /\ resp' = WithArg(MkResp("Register", 0, 0, ErrUsernameTaken, email, <<>>), username)
            /\ UNCHANGED <<users, nextUserID>>
       ELSE LET id == nextUserID
                row == [email |-> email,
                        username |-> username,
                        password |-> Hash(password),
                        active |-> TRUE,
                        admin |-> FALSE]
            IN  /\ nextUserID' = nextUserID + 1
                /\ IF UserIndexesAllow(email, username, id)
                   THEN /\ users' = [i \in UserIDs \cup {id} |->
                                        IF i = id THEN row ELSE users[i]]
                        /\ resp' = WithArg(MkResp("Register", id, id, ErrNone, email, <<>>),
                                           username)
                   ELSE /\ resp' = WithArg(MkResp("Register", 0, 0, ErrStorage, email, <<>>),
                                           username)
                        /\ UNCHANGED users
    /\ UNCHANGED <<posts, nextPostID, comments, nextCommentID, tags, nextTagID,
                   postTags, now, inflight>>

\* userService.UpdateProfile
UpdateProfile(userID, email, username) ==
    /\ IF ~ValidUserUpdate(email, username)
       THEN /\ resp' = MkResp("UpdateProfile", userID, userID, ErrValidation, email, <<>>)
            /\ UNCHANGED users
       ELSE IF userID \notin UserIDs
       THEN /\ resp' = MkResp("UpdateProfile", userID, userID, ErrUserNotFound, email, <<>>)
            /\ UNCHANGED users
       ELSE IF email # Empty /\ email # users[userID].email
               /\ UserIsEmailTaken(email, userID)
       THEN /\ resp' = MkResp("UpdateProfile", userID, userID, ErrEmailTaken, email, <<>>)
            /\ UNCHANGED users
       ELSE IF username # Empty /\ username # users[userID].username
               /\ UserIsUsernameTaken(username, userID)
       THEN /\ resp' = MkResp("UpdateProfile", userID, userID, ErrUsernameTaken, email, <<>>)
            /\ UNCHANGED users
       ELSE LET row == [users[userID] EXCEPT
                           !.email = IF email # Empty THEN email ELSE @,
                           !.username = IF username # Empty THEN username ELSE @]
            IN  IF UserIndexesAllow(row.email, row.username, userID)
                THEN /\ users' = [users EXCEPT ![userID] = row]
                     /\ resp' = MkResp("UpdateProfile", userID, userID, ErrNone, email, <<>>)
                ELSE /\ resp' = MkResp("UpdateProfile", userID, userID, ErrStorage, email, <<>>)
                     /\ UNCHANGED users
    /\ UNCHANGED <<posts, nextPostID, comments, nextCommentID, tags, nextTagID,
                   postTags, nextUserID, now, inflight>>

\* userRepository.GetByEmailOrUsername: the first row by id, 0 when there is none
GetByEmailOrUsername(emailOrUsername) ==
    LET found == {id \in UserIDs : \/ users[id].email = emailOrUsername
                                   \/ users[id].username = emailOrUsername}
    IN  IF found = {} THEN 0
        ELSE CHOOSE id \in found : \A other \in found : id <= other

\* Login without the check of the active flag
LoginErrorActiveUnchecked(emailOrUsername, password) ==
    LET id == GetByEmailOrUsername(emailOrUsername)
    IN  IF emailOrUsername = Empty \/ password = Empty THEN ErrValidation
        ELSE IF id = 0 THEN ErrInvalidCredentials
        ELSE IF ~CheckPassword(users[id].password, password) THEN ErrInvalidCredentials
        ELSE ErrNone

\* the error userService.Login returns, ErrNone when it issues a token
LoginError(emailOrUsername, password) ==
    LET id == GetByEmailOrUsername(emailOrUsername)
    IN  IF emailOrUsername = Empty \/ password = Empty THEN ErrValidation
        ELSE IF id = 0 THEN ErrInvalidCredentials
        ELSE IF ~users[id].active THEN ErrDeactivated
        ELSE IF ~CheckPassword(users[id].password, password) THEN ErrInvalidCredentials
        ELSE ErrNone

\* utils.GenerateToken: the claims of the token
GenerateToken(id) ==
    [userID |-> id, email |-> users[id].email, username |-> users[id].username,
     isAdmin |-> users[id].admin]

\* userService.Login; the answer carries the identifier, the password and the token
Login(emailOrUsername, password) ==
    /\ LET err == LoginError(emailOrUsername, password)
           id == GetByEmailOrUsername(emailOrUsername)
       IN  resp' = WithOut(WithArg(MkResp("Login", 0, IF err = ErrNone THEN id ELSE 0, err,
                                          emailOrUsername, <<>>), password),
                           IF err = ErrNone THEN <<GenerateToken(id)>> ELSE <<>>)
    /\ UNCHANGED <<posts, nextPostID, comments, nextCommentID, tags, nextTagID,
                   postTags, users, nextUserID, now, inflight>>

\* userService.DeactivateUser / ActivateUser
SetActive(op, id, active) ==
    /\ IF id \notin UserIDs
       THEN /\ resp' = MkResp(op, 1, id, ErrUserNotFound, Empty, <<>>)
            /\ UNCHANGED users
       ELSE /\ users' = [users EXCEPT ![id].active = active]
            /\ resp' = MkResp(op, 1, id, ErrNone, Empty, <<>>)
    /\ UNCHANGED <<posts, nextPostID, comments, nextCommentID, tags, nextTagID,
                   postTags, nextUserID, now, inflight>>

DeactivateUser(id) == SetActive("DeactivateUser", id, FALSE)

ActivateUser(id) == SetActive("ActivateUser", id, TRUE)

\* userRepository.Update: db.Save writes the columns as they are in the struct;
\* the BeforeCreate hook, which hashes the password, runs on inserts only
PasswordOnSave(password) == password

\* userService.ChangePassword; title is the old password, arg the new one
ChangePassword(userID, oldPassword, newPassword) ==
    /\ IF userID \notin UserIDs
       THEN /\ resp' = WithArg(MkResp("ChangePassword", userID, userID, ErrUserNotFound,
                                      oldPassword, <<>>), newPassword)
            /\ UNCHANGED users
       ELSE IF ~CheckPassword(users[userID].password, oldPassword)
       THEN /\ resp' = WithArg(MkResp("ChangePassword", userID, userID,
                                      ErrInvalidCurrentPassword, oldPassword, <<>>),
                               newPassword)
            /\ UNCHANGED users
       ELSE IF Len(newPassword) < PasswordMinLen
       THEN /\ resp' = WithArg(MkResp("ChangePassword", userID, userID, ErrNewPasswordShort,
                                      oldPassword, <<>>), newPassword)
            /\ UNCHANGED users
       ELSE /\ users' = [users EXCEPT ![userID].password = PasswordOnSave(newPassword)]
            /\ resp' = WithArg(MkResp("ChangePassword", userID, userID, ErrNone,
                                      oldPassword, <<>>), newPassword)
    /\ UNCHANGED <<posts, nextPostID, comments, nextCommentID, tags, nextTagID,
                   postTags, nextUserID, now, inflight>>

\* time passes between requests
Tick ==
    /\ now < PubMaxTime
    /\ now' = now + 1
    /\ resp' = MkResp("Tick", 0, 0, ErrNone, Empty, <<>>)
    /\ UNCHANGED <<posts, nextPostID, comments, nextCommentID, tags, nextTagID, postTags,
                   users, nextUserID, inflight>>

Init ==
    /\ posts = <<>>
    /\ nextPostID = 1
    /\ comments = <<>>
    /\ nextCommentID = 1
    /\ tags = <<>>
    /\ nextTagID = 1
    /\ postTags = {}
    /\ users = <<>>
    /\ nextUserID = 1
    /\ inflight = <<>>
    /\ now = 1
    /\ resp = MkResp("Init", 0, 0, ErrNone, Empty, <<>>)


(***************************************************************************)
(* Specifications.  Each draws the requests of one part of the content     *)
(* model from small sets and caps the number of rows ever created.         *)
(***************************************************************************)

\* post slugs: creates, retitles and deletes by the author
SlugPostCreate ==
    /\ nextPostID <= SlugMaxPosts
    /\ \E t \in Titles : PostCreate(2, t, ContentA, PostStatusDraft, {})
SlugPostUpdate ==
    \E id \in 1..SlugMaxPosts, t \in Titles \cup {Empty} :
        PostUpdate(2, id, t, Empty, "", {})
SlugPostDelete == \E id \in 1..SlugMaxPosts : PostDelete(2, id)

NextPostSlugs == SlugPostCreate \/ SlugPostUpdate \/ SlugPostDelete

SpecPostSlugs == Init /\ [][NextPostSlugs]_vars

\* tag names and slugs: creates, renames and deletes by the administrator
SlugTagCreate ==
    /\ nextTagID <= SlugMaxTags
    /\ \E n \in TagNames : TagCreate(1, n)
SlugTagUpdate == \E id \in 1..SlugMaxTags, n \in TagNames \cup {Empty} : TagUpdate(1, id, n)
SlugTagDelete == \E id \in 1..SlugMaxTags : TagDelete(1, id)

NextTags == SlugTagCreate \/ SlugTagUpdate \/ SlugTagDelete

SpecTags == Init /\ [][NextTags]_vars

\* slug disambiguation at creation, for posts and tags
CreatePost ==
    /\ nextPostID <= SlugMaxPosts
    /\ \E t \in {TitleGoGo, TitleGoGo1} : PostCreate(2, t, ContentA, PostStatusDraft, {})
CreateTag ==
    /\ nextTagID <= SlugMaxTags
    /\ \E n \in {TagGo, TagGoBang, TagGo1} : TagCreate(1, n)

NextCreate == CreatePost \/ SlugPostDelete \/ CreateTag \/ SlugTagDelete

SpecCreate == Init /\ [][NextCreate]_vars

\* publication: posts of one title, every status, while time passes
PubPostCreate ==
    /\ nextPostID <= PubMaxPosts
    /\ \E st \in StatusInputs : PostCreate(2, TitleGoGo, ContentA, st, {})
PubPostUpdate ==
    \E id \in 1..PubMaxPosts, st \in StatusInputs, c \in {Empty, ContentA} :
        PostUpdate(2, id, Empty, c, st, {})
PubPostPublish == \E id \in 1..PubMaxPosts : PostPublish(2, id)
PubPostUnpublish == \E id \in 1..PubMaxPosts : PostUnpublish(2, id)
PubGetPublishedPosts ==
    \E page \in 1..PubMaxPage, perPage \in 1..PubMaxPerPage : GetPublishedPosts(page, perPage)

NextPublication ==
    \/ PubPostCreate
    \/ PubPostUpdate
    \/ PubPostPublish
    \/ PubPostUnpublish
    \/ PubGetPublishedPosts
    \/ Tick

SpecPublication == Init /\ [][NextPublication]_vars

\* comment threads on one post: comments, replies, moderation, deletes
ThreadPostCreate ==
    /\ nextPostID <= ThreadMaxPosts
    /\ PostCreate(2, TitleGoGo, ContentA, PostStatusPublished, {})
ThreadPostDelete == \E id \in 1..ThreadMaxPosts : PostDelete(2, id)
ThreadCommentCreate ==
    /\ nextCommentID <= ThreadMaxComments
    /\ \E u \in {1, 3}, post \in 1..ThreadMaxPosts, parent \in 0..ThreadMaxComments :
          CommentCreate(u, CommentYo, post, parent)
ThreadCommentUpdate ==
    \E u \in {1, 3}, id \in 1..ThreadMaxComments, c \in {Empty, CommentYo},
       st \in {"", CommentStatusApproved} :
        CommentUpdate(u, id, c, st)
ThreadCommentDelete == \E id \in 1..ThreadMaxComments : CommentDelete(3, id)
ThreadApprove == \E id \in 1..ThreadMaxComments : ApproveComment(1, id)
ThreadReject == \E id \in 1..ThreadMaxComments : RejectComment(1, id)

NextThreads ==
    \/ ThreadPostCreate
    \/ ThreadPostDelete
    \/ ThreadCommentCreate
    \/ ThreadCommentUpdate
    \/ ThreadCommentDelete
    \/ ThreadApprove
    \/ ThreadReject

SpecThreads == Init /\ [][NextThreads]_vars


\* ownership: a post of user 2 and a comment of user 3, every requester
AuthPostCreate ==
    /\ nextPostID <= AuthMaxPosts
    /\ PostCreate(2, TitleGoGo, ContentA, PostStatusDraft, {})
AuthPostUpdate == \E u \in Users, id \in 1..AuthMaxPosts :
                     PostUpdate(u, id, TitleGoGoBang, Empty, "", {})
AuthPostDelete == \E u \in Users, id \in 1..AuthMaxPosts : PostDelete(u, id)
AuthPostPublish == \E u \in Users, id \in 1..AuthMaxPosts : PostPublish(u, id)
AuthPostUnpublish == \E u \in Users, id \in 1..AuthMaxPosts : PostUnpublish(u, id)
AuthCommentCreate ==
    /\ nextCommentID <= AuthMaxComments
    /\ \E post \in 1..AuthMaxPosts : CommentCreate(3, CommentHi, post, NULL)
AuthCommentUpdate == \E u \in Users, id \in 1..AuthMaxComments :
                        CommentUpdate(u, id, CommentYo, "")
AuthCommentDelete == \E u \in Users, id \in 1..AuthMaxComments : CommentDelete(u, id)

NextAuth ==
    \/ AuthPostCreate
    \/ AuthPostUpdate
    \/ AuthPostDelete
    \/ AuthPostPublish
    \/ AuthPostUnpublish
    \/ AuthCommentCreate
    \/ AuthCommentUpdate
    \/ AuthCommentDelete

SpecAuth == Init /\ [][NextAuth]_vars

\* tag assignment: one post of user 2, tags of the administrator
TagsTagCreate ==
    /\ nextTagID <= TagsMaxTags
    /\ \E n \in {TagGo, TagGo1} : TagCreate(1, n)
TagsTagDelete == \E id \in 1..TagsMaxTags : TagDelete(1, id)
TagsPostCreate ==
    /\ nextPostID <= TagsMaxPosts
    /\ \E S \in SUBSET (1..TagsMaxTags) : PostCreate(2, TitleGoGo, ContentA, PostStatusDraft, S)
TagsPostUpdate ==
    \E id \in 1..TagsMaxPosts, S \in SUBSET (1..TagsMaxTags) :
        PostUpdate(2, id, Empty, Empty, "", S)

NextPostTags == TagsTagCreate \/ TagsTagDelete \/ TagsPostCreate \/ TagsPostUpdate

SpecPostTags == Init /\ [][NextPostTags]_vars

\* n copies of unit
Rep(unit, n) == [i \in 1..(n * Len(unit)) |-> unit[((i - 1) % Len(unit)) + 1]]

\* titles of 5 to 200 characters: a prefix, then a repeated unit, so that the
\* cut at 100 characters falls on a letter in some and on a hyphen in others
SlugTitleUnits == {<<"a">>, <<"!">>, <<"a","-">>, <<"A"," "," ">>, <<"a","b","!">>,
                   <<"Z","9","_","_">>, <<"a","-","-","b","c">>}
SlugTitlePrefixes == {<<>>, <<"x">>, <<" ","-">>, <<"X","y">>}
SlugTitleRepeats == {2, 5, 25, 33, 40, 49, 50, 66}
SlugTitles ==
    {t \in {pre \o Rep(unit, n) : pre \in SlugTitlePrefixes, unit \in SlugTitleUnits,
                                   n \in SlugTitleRepeats} : ValidTitle(t)}

InitSlug ==
    /\ posts = <<>> /\ nextPostID = 1
    /\ comments = <<>> /\ nextCommentID = 1
    /\ tags = <<>> /\ nextTagID = 1
    /\ postTags = {} /\ now = 1
    /\ users = <<>> /\ nextUserID = 1
    /\ inflight = <<>>
    /\ \E t \in SlugTitles : resp = MkResp("Input", 0, 0, ErrNone, t, <<>>)

\* GenerateSlug applied to the title
SlugRequest ==
    /\ resp.op = "Input"
    /\ resp' = WithOut(MkResp("GenerateSlug", 0, 0, ErrNone, resp.title, <<>>),
                       GenerateSlug(resp.title))
    /\ UNCHANGED <<posts, nextPostID, comments, nextCommentID, tags, nextTagID, postTags, now,
                   users, nextUserID, inflight>>

NextGenerateSlug == SlugRequest

SpecGenerateSlug == InitSlug /\ [][NextGenerateSlug]_vars

\* the page, per_page and total a list request hands to CalculatePagination
PagPages == (0 - 1)..PagMaxPage
PagPerPages == ((0 - 1)..PagMaxPerPage) \cup {500}
PagTotals == 0..PagMaxTotal

InitPagination ==
    /\ posts = <<>> /\ nextPostID = 1
    /\ comments = <<>> /\ nextCommentID = 1
    /\ tags = <<>> /\ nextTagID = 1
    /\ postTags = {} /\ now = 1
    /\ users = <<>> /\ nextUserID = 1
    /\ inflight = <<>>
    /\ \E page \in PagPages, perPage \in PagPerPages, total \in PagTotals :
          resp = WithOut(MkResp("Input", 0, 0, ErrNone, Empty, <<>>),
                         [page |-> page, perPage |-> perPage, total |-> total])

\* CalculatePagination applied to the input
PaginationRequest ==
    /\ resp.op = "Input"
    /\ resp' = WithOut(MkResp("CalculatePagination", 0, 0, ErrNone, Empty,
                              <<resp.out.page, resp.out.perPage, resp.out.total>>),
                       CalculatePagination(resp.out.page, resp.out.perPage, resp.out.total))
    /\ UNCHANGED <<posts, nextPostID, comments, nextCommentID, tags, nextTagID, postTags, now,
                   users, nextUserID, inflight>>

NextPagination == PaginationRequest

SpecPagination == InitPagination /\ [][NextPagination]_vars

\* moderation: comments of user 3 on one post, edited by their author and by
\* the administrator with every status, approved and rejected
ModPostCreate ==
    /\ nextPostID <= 1
    /\ PostCreate(2, TitleGoGo, ContentA, PostStatusPublished, {})
ModCommentCreate ==
    /\ nextCommentID <= ModMaxComments
    /\ CommentCreate(3, CommentHi, 1, NULL)
ModCommentUpdate ==
    \E u \in Users, id \in 1..ModMaxComments, c \in {Empty, CommentYo},
       st \in CommentStatuses \cup {""} :
        CommentUpdate(u, id, c, st)
ModApprove == \E id \in 1..ModMaxComments : ApproveComment(1, id)
ModReject == \E id \in 1..ModMaxComments : RejectComment(1, id)

NextModeration ==
    \/ ModPostCreate
    \/ ModCommentCreate
    \/ ModCommentUpdate
    \/ ModApprove
    \/ ModReject

SpecModeration == Init /\ [][NextModeration]_vars

\* post creations racing: each checks its slug, then inserts
RaceCreateCheck ==
    /\ nextPostID + Cardinality(Slots) <= RaceMaxPosts
    /\ \E slot \in 1..RaceMaxRequests, u \in {2, 3},
          t \in {TitleGoGo, TitleGoGoBang, TitleGoGo1, TitleShort} :
          PostCreateCheck(slot, u, t, ContentA, PostStatusDraft)
RaceCreateInsert == \E slot \in 1..RaceMaxRequests : PostCreateInsert(slot)

NextCreateRace == RaceCreateCheck \/ RaceCreateInsert

SpecCreateRace == Init /\ [][NextCreateRace]_vars

\* the comments of one published post: written, edited, moderated and listed
ListPostCreate ==
    /\ nextPostID <= 1
    /\ PostCreate(2, TitleGoGo, ContentA, PostStatusPublished, {})
ListCommentCreate ==
    /\ nextCommentID <= ListMaxComments
    /\ \E parent \in {NULL} \cup (1..ListMaxComments) : CommentCreate(3, CommentHi, 1, parent)
ListCommentUpdate == \E id \in 1..ListMaxComments : CommentUpdate(3, id, CommentYo, "")
ListApprove == \E id \in 1..ListMaxComments : ApproveComment(1, id)
ListReject == \E id \in 1..ListMaxComments : RejectComment(1, id)
ListGetByPost ==
    \E page \in 1..2, perPage \in 1..ListMaxPerPage : GetByPost(1, page, perPage)

NextListing ==
    \/ ListPostCreate
    \/ ListCommentCreate
    \/ ListCommentUpdate
    \/ ListApprove
    \/ ListReject
    \/ ListGetByPost

SpecListing == Init /\ [][NextListing]_vars

\* comments and replies on two posts
CrossPostCreate ==
    /\ nextPostID <= CrossMaxPosts
    /\ PostCreate(2, TitleGoGo, ContentA, PostStatusPublished, {})
CrossCommentCreate ==
    /\ nextCommentID <= CrossMaxComments
    /\ \E u \in {2, 3}, c \in {CommentHi, CommentYo}, post \in 1..CrossMaxPosts,
          parent \in {NULL} \cup (1..CrossMaxComments) :
            CommentCreate(u, c, post, parent)

NextCrossPost == CrossPostCreate \/ CrossCommentCreate

SpecCrossPost == Init /\ [][NextCrossPost]_vars

\* accounts whose passwords are changed
PwRegister ==
    /\ nextUserID <= PwMaxUsers
    /\ \E e \in {EmailAnn, EmailBob}, n \in {NameAnn, NameBob}, pw \in {PasswordP, PasswordQ} :
          Register(e, n, pw)
PwChangePassword ==
    \E id \in 1..PwMaxUsers, old \in {PasswordP, PasswordQ}, new \in Passwords :
        ChangePassword(id, old, new)
PwLogin ==
    \E x \in {EmailAnn, NameBob}, pw \in {PasswordP, PasswordQ} : Login(x, pw)

NextPasswords == PwRegister \/ PwChangePassword \/ PwLogin

SpecPasswords == Init /\ [][NextPasswords]_vars

\* list requests with page and per_page query values in and out of range
HttpPostCreate ==
    /\ nextPostID <= HttpMaxPosts
    /\ \E st \in {PostStatusDraft, PostStatusPublished} :
          PostCreate(2, TitleGoGo, ContentA, st, {})
HttpGetPublishedPosts ==
    \E pageQuery \in {<<>>} \cup {<<n>> : n \in 0..HttpMaxPage},
       perPageQuery \in {<<>>} \cup {<<n>> : n \in {0, 1, 2, MaxPerPage, HttpMaxPerPage}} :
        HandleGetPublishedPosts(pageQuery, perPageQuery)
NextHttpList == HttpPostCreate \/ HttpGetPublishedPosts \/ Tick

SpecHttpList == Init /\ [][NextHttpList]_vars

\* posts created and updated with tag ids that may not resolve and a tag
\* association step that may fail
FailTagCreate ==
    /\ nextTagID <= FailMaxTags
    /\ TagCreate(1, TagGo)
FailTagSets == {{t} : t \in 1..(FailMaxTags + 1)}
FailPostCreate ==
    /\ nextPostID <= FailMaxPosts
    /\ \E st \in {PostStatusDraft, PostStatusPublished},
          S \in FailTagSets :
            PostCreate(2, TitleGoGo, ContentA, st, S)
FailPostUpdate ==
    \E id \in 1..FailMaxPosts, title \in {Empty, TitleGoGo1},
       content \in {Empty, ContentB}, st \in {"", PostStatusPublished},
       S \in FailTagSets :
        PostUpdate(2, id, title, content, st, S)

NextTagFailure == FailTagCreate \/ FailPostCreate \/ FailPostUpdate

SpecTagFailure == Init /\ [][NextTagFailure]_vars

\* one post, viewed, published, unpublished and updated concurrently
PendingViews == {slot \in Slots : inflight[slot].op = "IncrementViewCount"}

ViewPostCreate ==
    /\ nextPostID <= 1
    /\ \E st \in PostStatuses : PostCreate(2, TitleGoGo, ContentA, st, {})
ViewGetPost ==
    /\ \A id \in PostIDs : posts[id].viewCount + Cardinality(PendingViews) < ViewMaxViews
    /\ \E slot \in 1..ViewMaxSlots : GetPost(slot, 1)
ViewGetPostBySlug ==
    /\ \A id \in PostIDs : posts[id].viewCount + Cardinality(PendingViews) < ViewMaxViews
    /\ \E slot \in 1..ViewMaxSlots : GetPostBySlug(slot, GenerateSlug(TitleGoGo))
ViewIncrement == \E slot \in 1..ViewMaxSlots : IncrementViewCount(slot)
ViewPostRead ==
    \E slot \in 1..ViewMaxSlots :
        \/ PostRead(slot, "PostPublish", 2, 1, Empty, "")
        \/ PostRead(slot, "PostUnpublish", 2, 1, Empty, "")
        \/ \E st \in PostStatuses : PostRead(slot, "PostUpdate", 2, 1, Empty, st)
ViewPostSave == \E slot \in 1..ViewMaxSlots : PostSave(slot)
ViewTick ==
    /\ now < ViewMaxTime
    /\ now' = now + 1
    /\ resp' = MkResp("Tick", 0, 0, ErrNone, Empty, <<>>)
    /\ UNCHANGED <<posts, nextPostID, comments, nextCommentID, tags, nextTagID, postTags,
                   users, nextUserID, inflight>>

NextPostRace ==
    \/ ViewPostCreate
    \/ ViewGetPost
    \/ ViewGetPostBySlug
    \/ ViewIncrement
    \/ ViewPostRead
    \/ ViewPostSave
    \/ ViewTick

SpecPostRace == Init /\ [][NextPostRace]_vars

\* a started goroutine is scheduled: it runs unless the process ends
SpecPostRaceFair ==
    /\ Init
    /\ [][NextPostRace]_vars
    /\ \A slot \in 1..ViewMaxSlots : WF_vars(IncrementViewCount(slot))

\* accounts: registrations, profile updates, logins, (de)activation
UserRegister ==
    /\ nextUserID <= UserMaxUsers
    /\ \E e \in Emails, n \in Usernames, pw \in Passwords : Register(e, n, pw)
UserUpdateProfile ==
    \E id \in 1..UserMaxUsers, e \in Emails \cup {Empty}, n \in Usernames \cup {Empty} :
        UpdateProfile(id, e, n)
UserLogin ==
    \E x \in {EmailAnn, EmailBob, NameAnn, NameBob, Empty}, pw \in {PasswordP, PasswordQ, Empty} :
        Login(x, pw)
UserDeactivate == \E id \in 1..UserMaxUsers : DeactivateUser(id)
UserActivate == \E id \in 1..UserMaxUsers : ActivateUser(id)

NextUsers ==
    \/ UserRegister
    \/ UserUpdateProfile
    \/ UserLogin
    \/ UserDeactivate
    \/ UserActivate

SpecUsers == Init /\ [][NextUsers]_vars

(***************************************************************************)
(* Properties.                                                             *)
(***************************************************************************)

\* C1: after any sequence of post Create, Update and Delete requests served one
\* at a time, no two stored posts have the same slug; the services secure this
\* themselves, so the unique index never has to reject one of their writes.
PostSlugsUnique ==
    /\ \A a, b \in PostIDs : a # b => posts[a].slug # posts[b].slug
    /\ resp.err # ErrStorage

\* two posts whose titles derive the same slug are stored, the second of them
\* just retitled by an Update
PostSlugsUniqueWitness ==
    /\ resp.op = "PostUpdate" /\ resp.err = ErrNone /\ resp.title # Empty
    /\ \E a \in PostIDs :
          /\ a # resp.id
          /\ GenerateSlug(posts[a].title) = GenerateSlug(resp.title)
          /\ posts[resp.id].title = SanitizeText(resp.title)

SlugsOf(table) == {table[i].slug : i \in DOMAIN table}

\* s itself when free, else s-k for the least k >= 1 with s-k free
IsLeastFreeSlug(got, s, used) ==
    IF s \notin used
    THEN got = s
    ELSE \E k \in 1..(Cardinality(used) + 1) :
            /\ got = SlugWithCounter(s, k)
            /\ got \notin used
            /\ \A j \in 1..(k - 1) : SlugWithCounter(s, j) \in used

\* C7: a post Create or tag Create that succeeds stores the candidate slug s when
\* it is unused and otherwise s-k for the smallest positive k with s-k unused.
CreateStoresLeastFreeSlug ==
    [][/\ (nextPostID' # nextPostID /\ resp'.err = ErrNone) =>
            IsLeastFreeSlug(posts'[resp'.id].slug, GenerateSlug(resp'.title), SlugsOf(posts))
       /\ (nextTagID' # nextTagID /\ resp'.err = ErrNone) =>
            IsLeastFreeSlug(tags'[resp'.id].slug, GenerateSlug(resp'.title), SlugsOf(tags))
      ]_vars

\* a third post or tag got the suffix -2 because s and s-1 were taken
CreateStoresLeastFreeSlugWitness ==
    /\ resp.op \in {"PostCreate", "TagCreate"} /\ resp.err = ErrNone
    /\ LET table == IF resp.op = "PostCreate" THEN posts ELSE tags
           s == GenerateSlug(resp.title)
       IN  /\ table[resp.id].slug = SlugWithCounter(s, 2)
           /\ \E a, b \in DOMAIN table :
                 table[a].slug = s /\ table[b].slug = SlugWithCounter(s, 1)


\* C2: published_at is null until the post first becomes published (by Create
\* with status published, by Publish or by Update), is set to the current time at
\* that moment, and is never changed or reset to null afterwards.
PublishedAtSetOnce ==
    [][\A id \in DOMAIN posts' :
          IF id \in DOMAIN posts
          THEN IF posts[id].publishedAt # NULL
               THEN posts'[id].publishedAt = posts[id].publishedAt
               ELSE posts'[id].publishedAt =
                        (IF posts'[id].status = PostStatusPublished THEN now ELSE NULL)
          ELSE posts'[id].publishedAt =
                   (IF posts'[id].status = PostStatusPublished THEN now ELSE NULL)
      ]_vars

\* a post published earlier was just published again and kept its first time
PublishedAtSetOnceWitness ==
    /\ resp.op = "PostPublish" /\ resp.err = ErrNone
    /\ posts[resp.id].publishedAt # NULL
    /\ posts[resp.id].publishedAt < now

\* C9: GetPublishedPosts returns only posts whose status is published, for every
\* page and per_page.
PublishedFeedOnlyPublished ==
    resp.op = "GetPublishedPosts" =>
        \A i \in DOMAIN resp.items :
            /\ resp.items[i] \in PostIDs
            /\ posts[resp.items[i]].status = PostStatusPublished

\* the feed returned a post while an unpublished post that still carries its
\* published_at was left out
PublishedFeedOnlyPublishedWitness ==
    /\ resp.op = "GetPublishedPosts"
    /\ resp.items # <<>>
    /\ \E id \in PostIDs :
          /\ posts[id].status # PostStatusPublished
          /\ posts[id].publishedAt # NULL
          /\ id \notin Range(resp.items)

\* C3: a comment Update by its non-admin author that supplies content leaves the
\* comment pending, whatever its status was before.
AuthorEditResetsToPending ==
    (/\ resp.op = "CommentUpdate" /\ resp.err = ErrNone
     /\ ~IsAdmin(resp.user)
     /\ resp.title # Empty)
    => comments[resp.id].status = CommentStatusPending

\* the author just edited a comment that was approved
AuthorEditResetsToPendingWitness ==
    /\ resp.op = "CommentUpdate" /\ resp.err = ErrNone
    /\ ~IsAdmin(resp.user)
    /\ comments[resp.id].author = resp.user
    /\ resp.title # Empty
    /\ resp.was = CommentStatusApproved

\* C8: every comment Create that succeeds stores the comment as pending, for an
\* administrator as for a regular user, for a top-level comment as for a reply.
CreatedCommentPending ==
    (resp.op = "CommentCreate" /\ resp.err = ErrNone)
    => comments[resp.id].status = CommentStatusPending

\* an administrator just created a reply
CreatedCommentPendingWitness ==
    /\ resp.op = "CommentCreate" /\ resp.err = ErrNone
    /\ IsAdmin(resp.user)
    /\ comments[resp.id].parent # NULL

\* C4: after any sequence of comment creations (replies to replies included) and
\* deletions, no stored comment has a parent_id naming a comment that is gone.
NoOrphanedReplies ==
    \A c \in CommentIDs :
        comments[c].parent # NULL => comments[c].parent \in CommentIDs

TagNamesAndSlugsUnique ==
    \A a, b \in TagIDs :
        a # b => /\ ToLower(tags[a].name) # ToLower(tags[b].name)
                 /\ tags[a].slug # tags[b].slug


PostMutations == {"PostUpdate", "PostDelete", "PostPublish", "PostUnpublish"}
CommentMutations == {"CommentUpdate", "CommentDelete"}

TagsOfPost(id) == {pt[2] : pt \in {x \in postTags : x[1] = id}}

\* C11: after a post Update that succeeds and supplies a set S of ids of existing
\* tags, the empty set included, the post's tag set is exactly S.
UpdateReplacesTags ==
    (/\ resp.op = "PostUpdate" /\ resp.err = ErrNone
     /\ resp.out.tagsSaved
     /\ resp.tagIDs \subseteq TagIDs)
    => TagsOfPost(resp.id) = resp.tagIDs

\* only [a-z0-9-], no two hyphens in a row, no hyphen first or last, at most 100
SlugWellFormed(slug) ==
    /\ \A i \in DOMAIN slug : IsSlugAlnum(slug[i]) \/ slug[i] = "-"
    /\ \A i \in 1..(Len(slug) - 1) : ~(slug[i] = "-" /\ slug[i + 1] = "-")
    /\ slug # <<>> => (slug[1] # "-" /\ slug[Len(slug)] # "-")
    /\ Len(slug) <= SlugMaxLen

\* C12: for every valid title (5 to 200 characters) the slug GenerateSlug derives
\* contains only lowercase letters, digits and single hyphens, neither starts
\* nor ends with a hyphen, and is at most 100 characters long.
GeneratedSlugWellFormed ==
    (resp.op = "GenerateSlug" /\ ValidTitle(resp.title)) => SlugWellFormed(resp.out)

\* a slug cut at 100 characters where the cut left a hyphen last, trimmed to 99
GeneratedSlugWellFormedWitness ==
    /\ resp.op = "GenerateSlug" /\ ValidTitle(resp.title)
    /\ Len(TrimHyphens(ReplaceNonAlnumRuns(ToLower(resp.title)))) > SlugMaxLen
    /\ TrimHyphens(ReplaceNonAlnumRuns(ToLower(resp.title)))[SlugMaxLen] = "-"
    /\ Len(resp.out) = SlugMaxLen - 1

\* C13: for every page, per_page and total >= 0, CalculatePagination returns the
\* page raised to at least 1, per_page within 1..100 (below 1 becomes 10, above
\* 100 becomes 100) and total_pages the ceiling of total over that per_page.
PaginationClampedAndCeiling ==
    resp.op = "CalculatePagination" =>
        LET page == resp.items[1]
            perPage == resp.items[2]
            total == resp.items[3]
            clamped == IF perPage < 1 THEN 10 ELSE IF perPage > 100 THEN 100 ELSE perPage
        IN  /\ resp.out.page = (IF page < 1 THEN 1 ELSE page)
            /\ resp.out.perPage = clamped
            /\ resp.out.perPage \in 1..100
            /\ resp.out.totalPages = CeilDiv(total, clamped)
            /\ (total = 25 /\ perPage = 10) => resp.out.totalPages = 3
            /\ total = 0 => resp.out.totalPages = 0

\* page 0 and per_page 500 were clamped to 1 and 100, and 25 records over
\* per_page 10 gave a third, partial page
PaginationClampedAndCeilingWitness ==
    /\ resp.op = "CalculatePagination"
    /\ \/ resp.items = <<0, 500, 25>> /\ resp.out.page = 1 /\ resp.out.perPage = 100
       \/ resp.items = <<1, 10, 25>> /\ resp.out.totalPages = 3

\* C14: a valid Register whose email a stored user has fails with "email is
\* already registered", one whose username a stored user has fails with
\* "username is already taken" (the email is checked first), and neither
\* creates a user; after any Register or UpdateProfile no two stored users
\* share an email or a username.
RegisterRejectsDuplicates ==
    [][/\ (resp'.op = "Register" /\ resp'.err # ErrValidation) =>
            LET emailUsed == \E id \in DOMAIN users : users[id].email = resp'.title
                nameUsed == \E id \in DOMAIN users : users[id].username = resp'.arg
            IN  /\ emailUsed => (resp'.err = ErrEmailTaken /\ users' = users)
                /\ (nameUsed /\ ~emailUsed) =>
                        (resp'.err = ErrUsernameTaken /\ users' = users)
       /\ \A a, b \in DOMAIN users' :
             a # b => /\ users'[a].email # users'[b].email
                      /\ users'[a].username # users'[b].username
      ]_vars

\* a Register with a fresh email and the username of the one stored user was
\* refused and stored nothing
RegisterRejectsDuplicatesWitness ==
    /\ resp.op = "Register" /\ resp.err = ErrUsernameTaken
    /\ \E id \in UserIDs : users[id].username = resp.arg /\ users[id].email # resp.title
    /\ Cardinality(UserIDs) = 1

\* C15: a valid Login issues a token only when the identifier is the email or the
\* username of a stored user, that user is active and the password is the
\* user's; an unknown identifier yields "invalid credentials", a deactivated
\* user "account is deactivated", an active user's wrong password "invalid
\* credentials", and none of these issues a token.
LoginOnlyWithCredentials ==
    (resp.op = "Login" /\ resp.err # ErrValidation) =>
        LET known == {id \in UserIDs : resp.title \in {users[id].email, users[id].username}}
        IN  /\ resp.err = ErrNone =>
                  /\ resp.id \in known
                  /\ users[resp.id].active
                  /\ users[resp.id].password = Hash(resp.arg)
                  /\ Len(resp.out) = 1 /\ resp.out[1].userID = resp.id
            /\ resp.err # ErrNone => resp.out = <<>>
            /\ known = {} => resp.err = ErrInvalidCredentials
            /\ (\E id \in known : ~users[id].active) => resp.err = ErrDeactivated
            /\ (\E id \in known : users[id].active /\ users[id].password # Hash(resp.arg))
                  => resp.err = ErrInvalidCredentials

\* a deactivated user was just refused with the right password, by username
LoginOnlyWithCredentialsWitness ==
    /\ resp.op = "Login" /\ resp.err = ErrDeactivated
    /\ \E id \in UserIDs :
          /\ users[id].username = resp.title
          /\ ~users[id].active
          /\ users[id].password = Hash(resp.arg)

AdminModeration(r) ==
    \/ r.op \in {"ApproveComment", "RejectComment"}
    \/ r.op = "CommentUpdate" /\ IsAdmin(r.user) /\ r.arg # ""

\* C16: no admin moderation operation (ApproveComment, RejectComment, an admin
\* Update carrying a status) moves a comment from rejected to approved or from
\* approved back to pending.
ModerationOneWay ==
    [][AdminModeration(resp') =>
          \A id \in DOMAIN comments \cap DOMAIN comments' :
              /\ ~(/\ comments[id].status = CommentStatusRejected
                   /\ comments'[id].status = CommentStatusApproved)
              /\ ~(/\ comments[id].status = CommentStatusApproved
                   /\ comments'[id].status = CommentStatusPending)
      ]_vars

\* C17: a comment Update by a non-admin leaves the comment pending when content
\* is supplied and its status unchanged when not, whatever status the request
\* carries; an admin content edit without a status keeps the status; so a
\* comment becomes approved or rejected only by an admin operation.
OnlyAdminSetsStatus ==
    [][/\ (resp'.op = "CommentUpdate" /\ resp'.err = ErrNone) =>
            IF ~IsAdmin(resp'.user)
            THEN comments'[resp'.id].status =
                     (IF resp'.title # Empty THEN CommentStatusPending
                      ELSE comments[resp'.id].status)
            ELSE resp'.arg = "" => comments'[resp'.id].status = comments[resp'.id].status
       /\ \A id \in DOMAIN comments \cap DOMAIN comments' :
             (/\ comments'[id].status # comments[id].status
              /\ comments'[id].status \in {CommentStatusApproved, CommentStatusRejected})
             => \/ resp'.op \in {"ApproveComment", "RejectComment"}
                \/ resp'.op = "CommentUpdate" /\ IsAdmin(resp'.user)
      ]_vars

\* the author edited an approved comment, the request carrying the status
\* approved, and the comment is pending
OnlyAdminSetsStatusWitness ==
    /\ resp.op = "CommentUpdate" /\ resp.err = ErrNone
    /\ ~IsAdmin(resp.user)
    /\ resp.arg = CommentStatusApproved
    /\ resp.title # Empty
    /\ resp.was = CommentStatusApproved
    /\ comments[resp.id].status = CommentStatusPending

\* C18: once a post is archived, no post operation (Publish, Unpublish, Update)
\* changes its status to draft or published.
ArchivedIsTerminal ==
    [][\A id \in DOMAIN posts \cap DOMAIN posts' :
          posts[id].status = PostStatusArchived => posts'[id].status = PostStatusArchived
      ]_vars

PostTitleUnchanged ==
    /\ resp'.op = "PostUpdate" /\ resp'.err = ErrNone
    /\ posts'[resp'.id].title = posts[resp'.id].title

TagNameUnchanged ==
    /\ resp'.op = "TagUpdate" /\ resp'.err = ErrNone
    /\ tags'[resp'.id].name = tags[resp'.id].name

\* C19: a post Update that leaves the title as it was, and a tag Update that
\* leaves the name as it was, keep the existing slug, also when the slug carries
\* a numeric suffix and the unsuffixed slug has become free.
UnchangedTitleKeepsSlug ==
    [][/\ PostTitleUnchanged => posts'[resp'.id].slug = posts[resp'.id].slug
       /\ TagNameUnchanged => tags'[resp'.id].slug = tags[resp'.id].slug
      ]_vars

\* the Update passed validation, lookup, ownership and (for a tag) the check of
\* the name, and the slug derived from its title or name is another record's
PostUpdateSlugCollides ==
    /\ resp'.op = "PostUpdate" /\ resp'.title # Empty
    /\ resp'.err \notin {ErrValidation, ErrPostNotFound, ErrUnauthorized}
    /\ \E other \in DOMAIN posts :
          other # resp'.id /\ posts[other].slug = GenerateSlug(resp'.title)

TagUpdateSlugCollides ==
    /\ resp'.op = "TagUpdate" /\ resp'.title # Empty
    /\ resp'.err \notin {ErrValidation, ErrTagNotFound, ErrTagNameTaken}
    /\ \E other \in DOMAIN tags :
          other # resp'.id /\ tags[other].slug = GenerateSlug(resp'.title)

\* C20: a post Update or tag Update whose newly derived slug is already used by
\* a different record succeeds without an error, applies the new title or name,
\* and keeps the record's prior slug.
UpdateCollisionKeepsSlug ==
    [][/\ PostUpdateSlugCollides =>
            /\ resp'.err = ErrNone
            /\ posts'[resp'.id].title = SanitizeText(resp'.title)
            /\ posts'[resp'.id].slug = posts[resp'.id].slug
       /\ TagUpdateSlugCollides =>
            /\ resp'.err = ErrNone
            /\ tags'[resp'.id].name = SanitizeText(resp'.title)
            /\ tags'[resp'.id].slug = tags[resp'.id].slug
      ]_vars

\* C21: when two concurrent post Create requests settle on the same slug and the
\* later insert is rejected by the unique index on slug, the losing request is
\* answered with the status of a uniqueness conflict, 409.
CreateRaceAnswersConflict ==
    (resp.op = "PostCreate" /\ resp.err = ErrStorage) => resp.out.status = 409

\* C22: a post's view_count never decreases, under any interleaving of views
\* with Update, Publish and Unpublish requests on the same post.
ViewCountNeverDecreases ==
    [][\A id \in DOMAIN posts \cap DOMAIN posts' :
          posts'[id].viewCount >= posts[id].viewCount
      ]_vars

\* C23: under any interleaving of concurrent Publish, Unpublish and Update
\* requests on the same post, a published_at stored as non-null is never
\* overwritten with null or with a different time.
PublishedAtKeptUnderRace ==
    [][\A id \in DOMAIN posts \cap DOMAIN posts' :
          posts[id].publishedAt # NULL => posts'[id].publishedAt = posts[id].publishedAt
      ]_vars

\* the increments started for a post and not applied yet
PendingViewsOf(f, id) ==
    {slot \in DOMAIN f : f[slot].op = "IncrementViewCount" /\ f[slot].id = id}

\* C24: GetPost and GetPostBySlug answer with the view_count stored before
\* the view is counted and change no row; the view of a published post starts
\* exactly one increment, the view of a draft or archived post starts none;
\* a started increment adds exactly one to the post's view_count, and every
\* started increment is eventually applied.
ViewCountedOnceAfterAnswer ==
    /\ [][/\ (resp'.op \in {"GetPost", "GetPostBySlug"} /\ resp'.err = ErrNone) =>
               /\ posts' = posts
               /\ resp'.out.viewCount = posts[resp'.id].viewCount
               /\ IF posts[resp'.id].status = PostStatusPublished
                  THEN /\ Cardinality(PendingViewsOf(inflight', resp'.id))
                            = Cardinality(PendingViewsOf(inflight, resp'.id)) + 1
                       /\ DOMAIN inflight \subseteq DOMAIN inflight'
                       /\ \A slot \in DOMAIN inflight : inflight'[slot] = inflight[slot]
                  ELSE inflight' = inflight
          /\ resp'.op = "IncrementViewCount" =>
               /\ Cardinality(PendingViewsOf(inflight', resp'.id))
                    = Cardinality(PendingViewsOf(inflight, resp'.id)) - 1
               /\ resp'.id \in DOMAIN posts =>
                    posts' = [posts EXCEPT ![resp'.id].viewCount = @ + 1]
       ]_vars
    /\ \A slot \in 1..ViewMaxSlots :
          (slot \in PendingViews) ~> (slot \notin PendingViews)

\* a published post is read again while the increments of two earlier views
\* are still to be applied: the answer carries the old count
ViewCountedOnceAfterAnswerWitness ==
    /\ resp.op \in {"GetPost", "GetPostBySlug"}
    /\ resp.err = ErrNone
    /\ resp.out.status = PostStatusPublished
    /\ resp.out.viewCount = 0
    /\ Cardinality(PendingViewsOf(inflight, resp.id)) = 2

\* the slug before its length is limited
SlugBeforeCut(text) == TrimHyphens(ReplaceNonAlnumRuns(ToLower(text)))

\* C25: when the slug before the cut is longer than 100 characters and the
\* cut lands inside a word, the slug GenerateSlug returns ends where a word of
\* the uncut slug ends: the character after it in the uncut slug is a hyphen.
TruncatedSlugEndsAtWord ==
    (/\ resp.op = "GenerateSlug"
     /\ Len(SlugBeforeCut(resp.title)) > SlugMaxLen
     /\ SlugBeforeCut(resp.title)[SlugMaxLen] # "-"
     /\ SlugBeforeCut(resp.title)[SlugMaxLen + 1] # "-")
        => SlugBeforeCut(resp.title)[Len(resp.out) + 1] = "-"

\* the requested slug, or the slug with a counter when Create found it taken
IsSlugFor(slug, title) ==
    \/ slug = GenerateSlug(title)
    \/ \E n \in 1..FailMaxPosts : slug = SlugWithCounter(GenerateSlug(title), n)

\* the tag ids of the request do not all resolve, or the association failed
TagsNotAssociated(r) == ~(r.tagIDs \subseteq TagIDs) \/ ~r.out.tagsSaved

\* C26: a valid post Create, and a valid post Update by the author, whose tag
\* ids do not all resolve or whose tag association step fails, still succeeds
\* and stores the post's own fields as requested: the title, the slug of the
\* title, the content, the status and the publication time.
TagFailureKeepsPost ==
    [][/\ (/\ resp'.op = "PostCreate"
           /\ ValidPostCreate(resp'.title, resp'.arg.content, resp'.arg.status)
           /\ TagsNotAssociated(resp')) =>
              /\ resp'.err = ErrNone
              /\ resp'.id \in DOMAIN posts' \ DOMAIN posts
              /\ posts'[resp'.id].title = SanitizeText(resp'.title)
              /\ IsSlugFor(posts'[resp'.id].slug, resp'.title)
              /\ posts'[resp'.id].content = resp'.arg.content
              /\ posts'[resp'.id].status = resp'.arg.status
              /\ posts'[resp'.id].publishedAt =
                    IF resp'.arg.status = PostStatusPublished THEN now ELSE NULL
       /\ (/\ resp'.op = "PostUpdate"
           /\ ValidPostUpdate(resp'.title, resp'.arg.content, resp'.arg.status)
           /\ resp'.id \in DOMAIN posts
           /\ MayModify(IsAdmin(resp'.user), posts[resp'.id].author, resp'.user)
           /\ TagsNotAssociated(resp')) =>
              LET old == posts[resp'.id]
                  new == posts'[resp'.id]
                  other == {posts[i].slug : i \in DOMAIN posts \ {resp'.id}}
              IN  /\ resp'.err = ErrNone
                  /\ new.title = IF resp'.title # Empty THEN SanitizeText(resp'.title)
                                 ELSE old.title
                  /\ new.slug = IF resp'.title # Empty /\ GenerateSlug(resp'.title) \notin other
                                THEN GenerateSlug(resp'.title) ELSE old.slug
                  /\ new.content = IF resp'.arg.content # Empty THEN resp'.arg.content
                                   ELSE old.content
                  /\ new.status = IF resp'.arg.status # "" THEN resp'.arg.status
                                  ELSE old.status
                  /\ new.publishedAt =
                        IF old.publishedAt = NULL /\ resp'.arg.status = PostStatusPublished
                        THEN now ELSE old.publishedAt
      ]_vars

\* a post was updated with a new title, content and status while its tag ids
\* did not resolve, and another while the association step failed
TagFailureKeepsPostWitness ==
    /\ resp.op = "PostUpdate" /\ resp.err = ErrNone
    /\ resp.title = TitleGoGo1 /\ resp.arg.content = ContentB
    /\ resp.arg.status = PostStatusPublished
    /\ resp.tagIDs \subseteq TagIDs /\ resp.tagIDs # {}
    /\ ~resp.out.tagsSaved
    /\ posts[resp.id].slug = GenerateSlug(TitleGoGo1)
    /\ \E id \in PostIDs : id # resp.id /\ TagsOfPost(id) = {}

\* C27: the comments GetByPost lists for a post, top-level comments and the
\* replies under them, all have the status approved.
ListingOnlyApproved ==
    (resp.op = "GetByPost" /\ resp.err = ErrNone) =>
        \A id \in {resp.items[i] : i \in DOMAIN resp.items} \cup resp.out :
            id \in CommentIDs /\ comments[id].status = CommentStatusApproved

\* a listing with an approved comment and its approved reply, while another
\* reply under it, edited by its author, is pending and left out
ListingOnlyApprovedWitness ==
    /\ resp.op = "GetByPost" /\ resp.err = ErrNone
    /\ Len(resp.items) = 1
    /\ Cardinality(resp.out) = 1
    /\ \E r \in CommentIDs \ resp.out :
          /\ comments[r].parent = resp.items[1]
          /\ comments[r].status = CommentStatusPending
          /\ comments[r].content = SanitizeText(CommentYo)

\* C28: every reply's parent comment belongs to the same post as the reply.
ReplyParentOnSamePost ==
    \A id \in CommentIDs :
        (comments[id].parent # NULL /\ comments[id].parent \in CommentIDs) =>
            comments[comments[id].parent].post = comments[id].post

\* C29: after ChangePassword succeeds the stored credential is a hash of the
\* new password: a Login of the user with the new password would succeed and,
\* the two passwords being different, one with the old password would fail
\* with "invalid credentials".
ChangedPasswordIsHashed ==
    (resp.op = "ChangePassword" /\ resp.err = ErrNone) =>
        /\ users[resp.id].password = Hash(resp.arg)
        /\ users[resp.id].active => LoginError(users[resp.id].email, resp.arg) = ErrNone
        /\ resp.title # resp.arg =>
              LoginError(users[resp.id].email, resp.title) = ErrInvalidCredentials

\* C30: in the answer to a list request, a per_page query value above 100
\* is reported as 100 and a page query value of 0 as 1, and the items are the
\* ones the reported page and per_page select from the ordered result.
HttpListClamped ==
    resp.op = "HandleGetPublishedPosts" =>
        /\ (resp.arg.perPage # <<>> /\ resp.arg.perPage[1] > MaxPerPage) =>
              resp.out.perPage = MaxPerPage
        /\ resp.arg.page = <<0>> => resp.out.page = 1
        /\ \E s \in OrderedByPublishedAtDesc(
                         {id \in PostIDs : MatchesPublished(posts[id], now)}) :
              resp.items = Page(s, (resp.out.page - 1) * resp.out.perPage, resp.out.perPage)

====
